---- MODULE Spec2Model ----
(***************************************************************************)
(* Verification model of @handy-common-utils/aws-utils:                    *)
(*   - the pagination adapters of AwsUtils (fetchAllBy...), driven by      *)
(*     PromiseUtils.repeat;                                                *)
(*   - AwsUtils.withRetry, driven by PromiseUtils.withRetry, with the      *)
(*     error-shape classifier functions it consults;                       *)
(*   - the classifier functions called on their own (ClassifySpec).        *)
(* JavaScript values are encoded as strings and records:                   *)
(*   UNDEFINED is the value of a missing field, "" the empty string and    *)
(*   ZERO the number 0 (both falsy), other strings are truthy values.      *)
(***************************************************************************)
EXTENDS Integers, Sequences, FiniteSets, TLC

VARIABLES
    \* ---- one pagination walk (one call of a fetchAll... adapter) ----
    adapter,        \* which adapter was called
    fetchShape,     \* what the fetch function returns: "promise" or "request" (has .promise())
    filterFunc,     \* the optional per-item predicate ("none" when omitted)
    shouldFetch,    \* fetchAllWithPagination's shouldFetchNextPage ("none" when omitted)
    pState,         \* "ready" | "inflight" | "done" | "failed" | "idle"
    parameter,      \* PromiseUtils.repeat: the request of the next/current fetch
    collection,     \* PromiseUtils.repeat: the accumulator
    requests,       \* history: the requests handed to the fetch function
    responses,      \* history: the responses the fetch function resolved with
    fetchError,     \* history: the error the fetch function rejected with
    pOutcome,       \* what the adapter's promise settled with
    \* ---- one retry sequence (one call of AwsUtils.withRetry) ----
    entry,          \* the function called: "withRetry" or "promiseWithRetry"
    backoff,        \* the backoff argument
    statusCodes,    \* the statusCodes argument
    rState,         \* "calling" | "waiting" | "done" | "idle"
    attempt,        \* PromiseUtils.withRetry: attempt number, from 1
    previousError,  \* PromiseUtils.withRetry: error of the last attempt
    invocations,    \* history: how many times the operation was invoked
    attemptArgs,    \* history: the attempt numbers the operation was invoked with
    allSame,        \* history: every attempt so far threw the same error value
    waitMs,         \* the delay of the wait in progress (or last waited)
    waits,          \* history: the delays waited, in order
    backoffArg,     \* history: attempt argument of the last backoff call
    rOutcome,       \* what withRetry's promise settled with
    \* ---- one call of an error-shape classifier function ----
    cInput,         \* the value handed to the function
    cCalled,        \* the function called ("none" before the call)
    cResult,        \* what the call returned, or that it threw
    \* ---- one call of scanS3Bucket or listS3Objects on a bucket ----
    s3Function,     \* the function called
    s3Filter,       \* listS3Objects' filterFunc ("none" when omitted)
    bucket,         \* the listing S3 serves: its pages, in order
    sState,         \* "ready" | "inflight" | "done" | "failed" | "idle"
    sParameter,     \* PromiseUtils.repeat: the paging parameter of the next fetch
    sCommands,      \* history: the ListObjectsV2 commands sent to S3
    sResponses,     \* history: the outputs S3 answered with
    sCollection,    \* the accumulator: contents and commonPrefixes
    sOutcome,       \* what the function's promise settled with
    \* ---- two top-level calls running concurrently ----
    calls,          \* per call: function called, position, own history, outcome
    memory,         \* the mutable state the calls work on: accumulator, attempt, previous error
    \* ---- one call of headS3Object ----
    treat403AsNonExisting,  \* the argument ("omitted" when not passed)
    hKey,           \* the key asked for
    hState,         \* "ready" | "sent" | "done" | "idle"
    hSettled,       \* what s3.send settled with
    hOutcome,       \* what headS3Object's promise settled with
    \* ---- encodeS3ObjectKey followed by decodeS3ObjectKey ----
    key,            \* the object key, a sequence of characters
    kState,         \* "start" | "encoded" | "decoded" | "idle"
    encoded,        \* encodeS3ObjectKey(key)
    decoded,        \* decodeS3ObjectKey(encoded)
    \* ---- one call of fibonacciRetryConfigurationOptions ----
    maxRetries,     \* the argument
    base,           \* the argument ("omitted" when not passed)
    fState,         \* "start" | "returned" | "threw" | "backoff" | "idle"
    retryCount,     \* the argument customBackoff was called with
    fResult         \* what the call returned, then what customBackoff returned

pvars == <<adapter, fetchShape, filterFunc, shouldFetch, pState, parameter, collection,
           requests, responses, fetchError, pOutcome>>
rvars == <<entry, backoff, statusCodes, rState, attempt, previousError, invocations,
           attemptArgs, allSame, waitMs, waits, backoffArg, rOutcome>>
cvars == <<cInput, cCalled, cResult>>
svars == <<s3Function, s3Filter, bucket, sState, sParameter, sCommands, sResponses,
           sCollection, sOutcome>>
ivars == <<calls, memory>>
hvars == <<treat403AsNonExisting, hKey, hState, hSettled, hOutcome>>
kvars == <<key, kState, encoded, decoded>>
fvars == <<maxRetries, base, fState, retryCount, fResult>>
uvars == <<ivars, hvars, kvars, fvars>>
vars == <<pvars, rvars, cvars, svars, uvars>>

\* ------------------------------------------------------------------------
\* Bounds of the model
\* ------------------------------------------------------------------------
MaxPages == 3           \* a walk issues at most this many fetches
MaxBackoffLen == 2      \* caller-supplied backoff arrays have at most this length
MaxListing == 2         \* a bucket listing has at most this many pages

\* ------------------------------------------------------------------------
\* JavaScript values
\* ------------------------------------------------------------------------
UNDEFINED == "undefined"
ZERO == "0"
Falsy == {UNDEFINED, "", ZERO}
Truthy(v) == v \notin Falsy

RECURSIVE SelectSeq2(_, _)
\* Array.prototype.filter with the predicate given as the set of accepted items
SelectSeq2(s, accepted) ==
    IF s = <<>> THEN <<>>
    ELSE IF Head(s) \in accepted
         THEN <<Head(s)>> \o SelectSeq2(Tail(s), accepted)
         ELSE SelectSeq2(Tail(s), accepted)

\* ------------------------------------------------------------------------
\* Pagination: requests, responses, adapters
\* ------------------------------------------------------------------------
Items == {"a", "b", "c", "d", "e"}

\* the value found under the items field of a response
NoItemsField == [kind |-> "missing", entries |-> <<>>]
NotAnArray   == [kind |-> "scalar",  entries |-> <<>>]
ArrayOf(s)   == [kind |-> "array",   entries |-> s]
ItemsValues == {NoItemsField, NotAnArray,
                ArrayOf(<<>>), ArrayOf(<<"a", "b">>), ArrayOf(<<"c">>), ArrayOf(<<"d", "e">>)}

\* values an upstream may put in the continuation field of a response
Tokens == {"", ZERO, "m1", "m2"}

\* the adapters: the request field they set, the response field they read
Adapters == {
    [name |-> "fetchAllByPosition",          reqField |-> "position",          respField |-> "position"],
    [name |-> "fetchAllByNextToken",         reqField |-> "NextToken",         respField |-> "NextToken"],
    [name |-> "fetchAllByNextTokenV3",       reqField |-> "nextToken",         respField |-> "nextToken"],
    [name |-> "fetchAllByMarker",            reqField |-> "Marker",            respField |-> "NextMarker"],
    [name |-> "fetchAllByContinuationToken", reqField |-> "ContinuationToken", respField |-> "NextContinuationToken"],
    [name |-> "fetchAllByExclusiveStartKey", reqField |-> "ExclusiveStartKey", respField |-> "LastEvaluatedKey"],
    [name |-> "fetchAllWithPagination",      reqField |-> "pageToken",         respField |-> "pageToken"] }

AdapterNamed(n) == CHOOSE a \in Adapters : a.name = n

\* a field name no adapter reads
DecoyField == "Other"

\* a request: at most one continuation parameter; {} has no field
EmptyRequest == [field |-> "", value |-> UNDEFINED]
Request(f, v) == [field |-> f, value |-> v]
NoRequest == [field |-> "null", value |-> UNDEFINED]   \* nextParameter returned null

\* a response: the items value plus at most one continuation field
Response(iv, f, v) == [items |-> iv, field |-> f, value |-> v]
ResponsesFor(a) ==
    { Response(iv, "", UNDEFINED) : iv \in ItemsValues }
      \cup { Response(iv, a.respField, t) : iv \in ItemsValues, t \in Tokens }
      \cup { Response(iv, DecoyField, "m1") : iv \in ItemsValues }

\* response[fieldName]
Get(response, fieldName) ==
    IF response.field = fieldName THEN response.value ELSE UNDEFINED

\* the caller's filterFunc: "none" when the argument is omitted
FilterFuncs == {"none", "notB", "onlyBD"}
Accepted(f) ==
    IF f = "notB" THEN Items \ {"b"} ELSE IF f = "onlyBD" THEN {"b", "d"} ELSE Items

\* the caller's shouldFetchNextPage: "none" when the argument is omitted
ShouldFetchFuncs == {"none", "hasItems"}
ShouldFetchNextPage(sf, response) ==
    IF sf = "hasItems"
    THEN response.items.kind = "array" /\ response.items.entries # <<>>
    ELSE TRUE

\* mutant: the request is built under the response's field name
NextParameter_SameField(a, sf, response) ==
    IF Truthy(Get(response, a.respField))
    THEN Request(a.respField, Get(response, a.respField))
    ELSE NoRequest

\* mutant: the continuation field is copied without the test for its presence
NextParameter_NoStop(a, sf, response) ==
    Request(a.reqField, Get(response, a.respField))

\* the nextParameter callback of each adapter:
\*   response => response.X ? { Y: response.X } : null
\* and of fetchAllWithPagination:
\*   (!shouldFetchNextPage || shouldFetchNextPage(response))
\*      ? (response[p] ? { [p]: response[p] } : null) : null
NextParameter(a, sf, response) ==
    IF a.name = "fetchAllWithPagination"
    THEN IF sf = "none" \/ ShouldFetchNextPage(sf, response)
         THEN IF Truthy(Get(response, a.respField))
              THEN Request(a.reqField, Get(response, a.respField))
              ELSE NoRequest
         ELSE NoRequest
    ELSE IF Truthy(Get(response, a.respField))
         THEN Request(a.reqField, Get(response, a.respField))
         ELSE NoRequest

\* mutant: the page is put in front of the collection
Collect_Prepend(coll, response, f) ==
    IF response.items.kind = "array"
    THEN (IF f # "none" THEN SelectSeq2(response.items.entries, Accepted(f))
          ELSE response.items.entries) \o coll
    ELSE coll

\* mutant: the filter is applied to the first page only
Collect_FilterFirstPage(coll, response, f) ==
    IF response.items.kind = "array"
    THEN coll \o (IF f # "none" /\ coll = <<>>
                  THEN SelectSeq2(response.items.entries, Accepted(f))
                  ELSE response.items.entries)
    ELSE coll

\* mutant: a value that is not an array is appended as one item
Collect_ConcatAnything(coll, response, f) ==
    IF response.items.kind = "array"
    THEN coll \o (IF f # "none" THEN SelectSeq2(response.items.entries, Accepted(f))
                  ELSE response.items.entries)
    ELSE IF response.items.kind = "scalar" THEN Append(coll, "scalar")
    ELSE coll

\* the collect callback of every adapter:
\*   (collection, response) => Array.isArray(entries)
\*      ? collection.concat(filterFunc ? entries.filter(e => filterFunc(e)) : entries)
\*      : collection
Collect(coll, response, f) ==
    IF response.items.kind = "array"
    THEN coll \o (IF f # "none" THEN SelectSeq2(response.items.entries, Accepted(f))
                  ELSE response.items.entries)
    ELSE coll

\* what a fetch function (or an operation) hands back: a promise, or a request
\* object whose promise() method gives the promise; settled is what the promise
\* settles with, self is what awaiting the returned object itself gives
Fulfilled(response) == [ok |-> TRUE, response |-> response, error |-> UNDEFINED]
Failed(e) == [ok |-> FALSE, response |-> Response(NoItemsField, "", UNDEFINED), error |-> e]
Returns(shape, settled) ==
    IF shape = "request"
    THEN [hasPromiseFunction |-> TRUE, promise |-> settled,
          self |-> Fulfilled(Response(NoItemsField, "", UNDEFINED))]
    ELSE [hasPromiseFunction |-> FALSE, promise |-> settled, self |-> settled]

\* mutant: the returned object is awaited as it is
awaitItems_NoPromiseCall(returned) == returned.self

\* typeof asRequest.promise === 'function' ? asRequest.promise() : requestOrPromise
awaitItems(returned) ==
    IF returned.hasPromiseFunction THEN returned.promise ELSE returned.self

FetchShapes == {"promise", "request"}

\* settled values of the adapter's promise
Pending == [status |-> "pending", value |-> <<>>, error |-> UNDEFINED]
Resolved(v) == [status |-> "resolved", value |-> v, error |-> UNDEFINED]
Rejected(e) == [status |-> "rejected", value |-> <<>>, error |-> e]

FetchErrors == {"NetworkError", "AccessDenied"}

\* mutant: a failed fetch ends the walk with the items collected so far
OnFetchFailure_Partial(coll, e) == Resolved(coll)

\* return PromiseUtils.repeat(...): the adapter has no catch, a rejection of
\* the fetch is the rejection of the adapter's promise
OnFetchFailure(coll, e) == Rejected(e)

PInit ==
    /\ adapter \in Adapters
    /\ fetchShape \in FetchShapes
    /\ filterFunc \in FilterFuncs
    /\ shouldFetch \in (IF adapter.name = "fetchAllWithPagination" THEN ShouldFetchFuncs ELSE {"none"})
    /\ pState = "ready"
    /\ parameter = EmptyRequest
    /\ collection = <<>>
    /\ requests = <<>>
    /\ responses = <<>>
    /\ fetchError = UNDEFINED
    /\ pOutcome = Pending

PIdle ==
    /\ adapter = AdapterNamed("fetchAllByPosition")
    /\ fetchShape = "promise"
    /\ filterFunc = "none"
    /\ shouldFetch = "none"
    /\ pState = "idle"
    /\ parameter = EmptyRequest
    /\ collection = <<>>
    /\ requests = <<>>
    /\ responses = <<>>
    /\ fetchError = UNDEFINED
    /\ pOutcome = Pending

\* mutant: the next fetch is issued while the previous one is still in flight
CallFetch_Prefetch ==
    /\ pState \in {"ready", "inflight"}
    /\ Len(requests) < MaxPages
    /\ requests' = Append(requests, parameter)
    /\ pState' = "inflight"
    /\ UNCHANGED <<adapter, fetchShape, filterFunc, shouldFetch, parameter, collection, responses, fetchError, pOutcome>>
    /\ UNCHANGED rvars
    /\ UNCHANGED cvars
    /\ UNCHANGED svars
    /\ UNCHANGED uvars

\* PromiseUtils.repeat: operation(parameter) is called and awaited
CallFetch ==
    /\ pState = "ready"
    /\ Len(requests) < MaxPages
    /\ requests' = Append(requests, parameter)
    /\ pState' = "inflight"
    /\ UNCHANGED <<adapter, fetchShape, filterFunc, shouldFetch, parameter, collection, responses, fetchError, pOutcome>>
    /\ UNCHANGED rvars
    /\ UNCHANGED cvars
    /\ UNCHANGED svars
    /\ UNCHANGED uvars

\* the fetch resolves: collect, then derive the next request or return
FetchResolves ==
    /\ pState = "inflight"
    /\ \E upstream \in ResponsesFor(adapter) :
        LET settled == awaitItems(Returns(fetchShape, Fulfilled(upstream)))
            response == settled.response
            coll == Collect(collection, response, filterFunc)
            next == NextParameter(adapter, shouldFetch, response)
        IN /\ settled.ok
           /\ responses' = Append(responses, upstream)
           /\ collection' = coll
           /\ IF next # NoRequest
              THEN /\ parameter' = next
                   /\ pState' = "ready"
                   /\ pOutcome' = pOutcome
              ELSE /\ parameter' = parameter
                   /\ pState' = "done"
                   /\ pOutcome' = Resolved(coll)
    /\ UNCHANGED <<adapter, fetchShape, filterFunc, shouldFetch, requests, fetchError>>
    /\ UNCHANGED rvars
    /\ UNCHANGED cvars
    /\ UNCHANGED svars
    /\ UNCHANGED uvars

\* the fetch rejects: the adapter's promise rejects with the same error
FetchRejects ==
    /\ pState = "inflight"
    /\ \E e \in FetchErrors :
        LET settled == awaitItems(Returns(fetchShape, Failed(e)))
        IN /\ ~settled.ok
           /\ fetchError' = e
           /\ pState' = "failed"
           /\ pOutcome' = OnFetchFailure(collection, settled.error)
    /\ UNCHANGED <<adapter, fetchShape, filterFunc, shouldFetch, parameter, collection, requests, responses>>
    /\ UNCHANGED rvars
    /\ UNCHANGED cvars
    /\ UNCHANGED svars
    /\ UNCHANGED uvars

\* ------------------------------------------------------------------------
\* Errors and the error-shape classifier
\* ------------------------------------------------------------------------
\* An error value.  kind: "undefined" (no error), "null", "primitive", "object".
\* For an object: "absent" marks a field the object does not have.
\*   retryable, code, message, statusCode, retryDelay : direct (SDK v2) fields
\*   metadata ("absent"/"present"/"undefined") and httpStatusCode :
\*       $metadata ("undefined": the key is there, its value is undefined),
\*       $metadata.httpStatusCode
\*   throttling : $retryable?.throttling
PlainObject ==
    [kind |-> "object", name |-> "Error", message |-> "absent",
     retryable |-> "absent", code |-> "absent", statusCode |-> UNDEFINED,
     hasRetryDelay |-> FALSE, retryDelay |-> 0,
     metadata |-> "absent", httpStatusCode |-> UNDEFINED, throttling |-> "absent"]

NoError     == [PlainObject EXCEPT !.kind = "undefined"]
NullError   == [PlainObject EXCEPT !.kind = "null"]
StringError == [PlainObject EXCEPT !.kind = "primitive"]
\* the TypeError raised by reading a property of undefined
TypeError   == [PlainObject EXCEPT !.name = "TypeError", !.message = "present"]

V3Error(name, http, throttling) ==
    [PlainObject EXCEPT !.name = name, !.message = "present", !.metadata = "present",
                        !.httpStatusCode = http, !.throttling = throttling]
V2Error(code, retryable, status) ==
    [PlainObject EXCEPT !.message = "present", !.code = code,
                        !.retryable = retryable, !.statusCode = status]
WithRetryDelay(e, sec) == [e EXCEPT !.hasRetryDelay = TRUE, !.retryDelay = sec]
WithMetadata(e, http) == [e EXCEPT !.metadata = "present", !.httpStatusCode = http]

\* the error of the repository's test: ThrottlingException with HTTP 400
v3ThrottlingErrorWith400 == V3Error("ThrottlingException", "400", "absent")

ErrorSet == {
    NullError, StringError,
    [PlainObject EXCEPT !.message = "present"],
    WithRetryDelay([PlainObject EXCEPT !.message = "present"], 2),
    v3ThrottlingErrorWith400,
    V3Error("ThrottlingException", "429", "absent"),
    V3Error("ThrottlingException", UNDEFINED, "absent"),
    V3Error("Error", "429", "true"),
    V3Error("Error", "429", "false"),
    V3Error("Error", "500", "true"),
    V3Error("Error", "429", "absent"),
    WithRetryDelay(V3Error("Error", "429", "true"), 2),
    [V3Error("Error", "429", "true") EXCEPT !.message = "absent"],
    V2Error("OtherCode", "true", "429"),
    V2Error("OtherCode", "false", "429"),
    V2Error("ThrottlingException", "false", "400"),
    WithRetryDelay(V2Error("OtherCode", "true", "429"), 2),
    WithMetadata(V2Error("OtherCode", "true", "429"), "429"),
    WithMetadata(V2Error("OtherCode", "true", "429"), UNDEFINED),
    WithMetadata(V2Error("OtherCode", "true", "400"), UNDEFINED),
    WithMetadata(V2Error("OtherCode", "true", UNDEFINED), UNDEFINED),
    WithMetadata(V2Error("ThrottlingException", "false", "429"), "429"),
    WithRetryDelay(WithMetadata(V2Error("OtherCode", "true", "429"), "429"), 2),
    WithRetryDelay(WithMetadata(V2Error("OtherCode", "true", "429"), "429"), 0),
    WithRetryDelay(WithMetadata(V2Error("ThrottlingException", "true", "400"), "400"), 5) }

IsObject(e) == e.kind = "object"   \* typeof error === 'object' && error != null

isPossibleAwsV2Error(e) ==
    IsObject(e) /\ e.retryable # "absent" /\ e.code # "absent" /\ e.message # "absent"

\* mutant: the test for $metadata is missing
isPossibleAwsV3Error_NoMetadataCheck(e) ==
    IsObject(e) /\ e.message # "absent"

isPossibleAwsV3Error(e) ==
    IsObject(e) /\ e.metadata # "absent" /\ e.message # "absent"

\* mutant: every object passes for an AWS error
isPossibleAwsError_AnyObject(e) == IsObject(e)

isPossibleAwsError(e) == isPossibleAwsV3Error(e) \/ isPossibleAwsV2Error(e)

\* a computed value, or the exception raised while computing it
Value(v) == [throws |-> FALSE, value |-> v]
Throws == [throws |-> TRUE, value |-> UNDEFINED]

Bool(b) == IF b THEN "true" ELSE "false"

\* reading a property of null or undefined raises a TypeError
Nullish(e) == e.kind \in {"null", "undefined"}

\* error.$metadata.httpStatusCode ?? error.statusCode
awsErrorStatusCode(e) ==
    IF Nullish(e) \/ e.metadata # "present" THEN Throws
    ELSE IF e.httpStatusCode # UNDEFINED THEN Value(e.httpStatusCode)
    ELSE Value(e.statusCode)

\* mutant: the direct retryable field is preferred to the nested flag
awsErrorRetryable_DirectFirst(e) ==
    IF Nullish(e) THEN Throws
    ELSE IF e.retryable # "absent" THEN Value(e.retryable)
    ELSE IF e.throttling # "absent" THEN Value(e.throttling)
    ELSE Value("false")

\* error.$retryable?.throttling ?? error.retryable ?? false
awsErrorRetryable(e) ==
    IF Nullish(e) THEN Throws
    ELSE IF e.throttling # "absent" THEN Value(e.throttling)
    ELSE IF e.retryable # "absent" THEN Value(e.retryable)
    ELSE Value("false")

\* mutant: a throttling error must also carry HTTP status 429
isPossibleAwsThrottlingError_Needs429(e) ==
    \/ isPossibleAwsV3Error(e) /\ e.name = "ThrottlingException" /\ e.httpStatusCode = "429"
    \/ isPossibleAwsV2Error(e) /\ e.code = "ThrottlingException" /\ e.statusCode = "429"

\* mutant: name and code are compared without the shape tests
isPossibleAwsThrottlingError_NoShapeCheck(e) ==
    IsObject(e) /\ (e.name = "ThrottlingException" \/ e.code = "ThrottlingException")

isPossibleAwsThrottlingError(e) ==
    \/ isPossibleAwsV3Error(e) /\ e.name = "ThrottlingException"
    \/ isPossibleAwsV2Error(e) /\ e.code = "ThrottlingException"

\* ------------------------------------------------------------------------
\* AwsUtils.withRetry
\* ------------------------------------------------------------------------
MaxAttempts == 7        \* the operation is invoked at most this many times

\* default value of the backoff parameter
DefaultBackoff == <<500, 1000, 1500, 3000, 5000, 8000>>
\* default value of the statusCodes parameter
DefaultStatusCodes == {"429"}

BackoffValues == {-1, 100, 3000}
RECURSIVE SeqsUpTo(_, _)
SeqsUpTo(S, n) ==
    IF n = 0 THEN {<<>>}
    ELSE LET shorter == SeqsUpTo(S, n - 1)
         IN shorter \cup { Append(s, x) : s \in {t \in shorter : Len(t) = n - 1}, x \in S }

BackoffFunctions == {"always100", "twice200"}
Backoffs ==
    { [kind |-> "default", arr |-> DefaultBackoff, fn |-> ""] }
      \cup { [kind |-> "array", arr |-> s, fn |-> ""] : s \in SeqsUpTo(BackoffValues, MaxBackoffLen) }
      \cup { [kind |-> "function", arr |-> <<>>, fn |-> f] : f \in BackoffFunctions }

StatusCodesArgs ==
    { [kind |-> "default", codes |-> DefaultStatusCodes],
      [kind |-> "null", codes |-> {}],
      [kind |-> "array", codes |-> {}],
      [kind |-> "array", codes |-> {"400", "429"}],
      [kind |-> "array", codes |-> {UNDEFINED}] }

\* a delay in milliseconds, or undefined
Ms(n) == [defined |-> TRUE, ms |-> n]
NoMs == [defined |-> FALSE, ms |-> 0]

\* the caller's backoff function applied to an attempt number
CallBackoffFunction(fn, att) ==
    IF fn = "always100" THEN Ms(100)
    ELSE IF att <= 2 THEN Ms(200) ELSE NoMs

\* backoff[i] of a JavaScript array (0-based index i)
ArrayAt(arr, i) == IF i >= 0 /\ i < Len(arr) THEN Ms(arr[i + 1]) ELSE NoMs

\* mutant: the array is indexed by the attempt number itself
BackoffMs_OffByOne(b, att) ==
    IF b.kind = "function" THEN CallBackoffFunction(b.fn, att)
    ELSE ArrayAt(b.arr, att)

\* Array.isArray(backoff) ? backoff[attempt - 1] : backoff(attempt, previousResult, previousError)
BackoffMs(b, att) ==
    IF b.kind = "function" THEN CallBackoffFunction(b.fn, att)
    ELSE ArrayAt(b.arr, att - 1)

\* mutant: retryDelay is read from whatever error carries it
AwsRetryDelaySec_AnyShape(e) ==
    IF e.hasRetryDelay THEN Ms(e.retryDelay) ELSE NoMs

\* isPossibleAwsV2Error(previousError) ? previousError.retryDelay : null
AwsRetryDelaySec(e) ==
    IF isPossibleAwsV2Error(e) /\ e.hasRetryDelay THEN Ms(e.retryDelay) ELSE NoMs

\* mutant: the smaller of the two delays is returned
WithRetryBackoff_Smaller(b, att, e) ==
    LET backoffMs == BackoffMs(b, att)
        awsRetryDelaySec == AwsRetryDelaySec(e)
    IN IF ~backoffMs.defined \/ backoffMs.ms < 0 \/ ~awsRetryDelaySec.defined
       THEN backoffMs
       ELSE LET awsRetryDelayMs == awsRetryDelaySec.ms * 1000
            IN IF awsRetryDelayMs < backoffMs.ms THEN Ms(awsRetryDelayMs) ELSE backoffMs

\* mutant: the schedule's stop signal is not looked at before the advised
\* delay is compared with it
WithRetryBackoff_NoStopCheck(b, att, e) ==
    LET backoffMs == BackoffMs(b, att)
        awsRetryDelaySec == AwsRetryDelaySec(e)
    IN IF ~backoffMs.defined \/ ~awsRetryDelaySec.defined
       THEN backoffMs
       ELSE LET awsRetryDelayMs == awsRetryDelaySec.ms * 1000
            IN IF awsRetryDelayMs > backoffMs.ms THEN Ms(awsRetryDelayMs) ELSE backoffMs

\* the backoff function AwsUtils.withRetry hands to PromiseUtils.withRetry
WithRetryBackoff(b, att, e) ==
    LET backoffMs == BackoffMs(b, att)
        awsRetryDelaySec == AwsRetryDelaySec(e)
    IN IF ~backoffMs.defined \/ backoffMs.ms < 0 \/ ~awsRetryDelaySec.defined
       THEN backoffMs
       ELSE LET awsRetryDelayMs == awsRetryDelaySec.ms * 1000
            IN IF awsRetryDelayMs > backoffMs.ms THEN Ms(awsRetryDelayMs) ELSE backoffMs

\* mutant: an empty array is taken for "no filter"
StatusCodeAllowed_EmptyIsNull(sc, statusCode) ==
    sc.kind = "null" \/ sc.codes = {} \/ statusCode \in sc.codes

\* statusCodes == null || statusCodes.includes(statusCode)
StatusCodeAllowed(sc, statusCode) ==
    sc.kind = "null" \/ statusCode \in sc.codes

\* mutant: either condition alone authorizes the retry
WithRetryShouldRetry_Either(sc, e) ==
    IF ~isPossibleAwsError(e) THEN "false"
    ELSE LET retryable == awsErrorRetryable(e)
             isRetryable == retryable.value = "true" \/ isPossibleAwsThrottlingError(e)
             statusCode == awsErrorStatusCode(e)
         IN IF retryable.throws \/ statusCode.throws THEN "throws"
            ELSE IF isRetryable \/ StatusCodeAllowed(sc, statusCode.value) THEN "true"
            ELSE "false"

\* mutant: whatever is not an AWS error is retried
WithRetryShouldRetry_ForeignRetried(sc, e) ==
    IF ~isPossibleAwsError(e) THEN "true"
    ELSE LET retryable == awsErrorRetryable(e)
             isRetryable == retryable.value = "true" \/ isPossibleAwsThrottlingError(e)
             statusCode == awsErrorStatusCode(e)
         IN IF retryable.throws \/ statusCode.throws THEN "throws"
            ELSE IF isRetryable /\ StatusCodeAllowed(sc, statusCode.value) THEN "true"
            ELSE "false"

\* the shouldRetry predicate AwsUtils.withRetry hands to PromiseUtils.withRetry:
\* "true", "false", or "throws" when awsErrorStatusCode raises a TypeError
WithRetryShouldRetry(sc, e) ==
    IF ~isPossibleAwsError(e) THEN "false"
    ELSE LET retryable == awsErrorRetryable(e)
             isRetryable == retryable.value = "true" \/ isPossibleAwsThrottlingError(e)
             statusCode == awsErrorStatusCode(e)
         IN IF retryable.throws \/ statusCode.throws THEN "throws"
            ELSE IF isRetryable /\ StatusCodeAllowed(sc, statusCode.value) THEN "true"
            ELSE "false"

\* what the operation resolves with: a value, tagged with the attempt number
\* the operation was called with
NoResult == [value |-> UNDEFINED, from |-> 0]
Results(att) == { [value |-> v, from |-> att] : v \in {"r1", "r2"} }

\* withRetry takes an operation returning a promise; promiseWithRetry takes one
\* returning a request and calls its promise() method
Entries == {"withRetry", "promiseWithRetry"}
OperationReturns(en, settled) ==
    IF en = "promiseWithRetry"
    THEN [hasPromiseFunction |-> TRUE, promise |-> settled,
          self |-> [ok |-> TRUE, result |-> NoResult, error |-> NoError]]
    ELSE [hasPromiseFunction |-> FALSE, promise |-> settled, self |-> settled]
\* mutant: promiseWithRetry hands back the request without calling promise()
WrappedOperation_NoPromiseCall(en, returned) == returned.self

\* promiseWithRetry: operation(attempt, previousResult, previousError).promise()
WrappedOperation(en, returned) ==
    IF en = "promiseWithRetry" THEN returned.promise ELSE returned.self
RPending == [status |-> "pending", value |-> NoResult, error |-> NoError]
RResolved(v) == [status |-> "resolved", value |-> v, error |-> NoError]
RRejected(e) == [status |-> "rejected", value |-> NoResult, error |-> e]

RInit ==
    /\ entry \in Entries
    /\ backoff \in Backoffs
    /\ statusCodes \in StatusCodesArgs
    /\ rState = "calling"
    /\ attempt = 1
    /\ previousError = NoError
    /\ invocations = 0
    /\ attemptArgs = <<>>
    /\ allSame = TRUE
    /\ waitMs = 0
    /\ waits = <<>>
    /\ backoffArg = 0
    /\ rOutcome = RPending

RIdle ==
    /\ entry = "withRetry"
    /\ backoff = [kind |-> "array", arr |-> <<>>, fn |-> ""]
    /\ statusCodes = [kind |-> "default", codes |-> DefaultStatusCodes]
    /\ rState = "idle"
    /\ attempt = 1
    /\ previousError = NoError
    /\ invocations = 0
    /\ attemptArgs = <<>>
    /\ allSame = TRUE
    /\ waitMs = 0
    /\ waits = <<>>
    /\ backoffArg = 0
    /\ rOutcome = RPending

\* PromiseUtils.withRetry: operation(attempt, previousResult, previousError) is called
InvokeOperation ==
    /\ rState = "calling"
    /\ invocations < MaxAttempts
    /\ invocations' = invocations + 1
    /\ attemptArgs' = Append(attemptArgs, attempt)
    /\ rState' = "running"
    /\ UNCHANGED <<entry, backoff, statusCodes, attempt, previousError, allSame, waitMs, waits, backoffArg, rOutcome>>
    /\ UNCHANGED pvars
    /\ UNCHANGED cvars
    /\ UNCHANGED svars
    /\ UNCHANGED uvars

\* PromiseUtils.withRetry once an attempt has settled: shouldRetry(previousError)
\* is consulted, then backoff(attempt, previousResult, previousError)
AttemptSettled(ok, result, e) ==
    LET decision == WithRetryShouldRetry(statusCodes, e)
        delay == WithRetryBackoff(backoff, attempt, e)
        settledWith == IF ok THEN RResolved(result) ELSE RRejected(e)
    IN IF decision = "throws"
       THEN /\ rState' = "done"
            /\ rOutcome' = RRejected(TypeError)
            /\ UNCHANGED <<waitMs, waits, backoffArg>>
       ELSE IF decision = "false"
       THEN /\ rState' = "done"
            /\ rOutcome' = settledWith
            /\ UNCHANGED <<waitMs, waits, backoffArg>>
       ELSE /\ backoffArg' = attempt
            /\ IF ~delay.defined \/ delay.ms < 0
               THEN /\ rState' = "done"
                    /\ rOutcome' = settledWith
                    /\ UNCHANGED <<waitMs, waits>>
               ELSE /\ rState' = "waiting"
                    /\ waitMs' = delay.ms
                    /\ waits' = Append(waits, delay.ms)
                    /\ rOutcome' = rOutcome

\* the attempt resolves: shouldRetry(undefined) is false, the result is returned
OperationResolves ==
    /\ rState = "running"
    /\ \E r \in Results(attempt) :
        LET settled == WrappedOperation(entry, OperationReturns(entry,
                           [ok |-> TRUE, result |-> r, error |-> NoError]))
        IN /\ settled.ok
           /\ AttemptSettled(TRUE, settled.result, NoError)
    /\ previousError' = NoError
    /\ allSame' = FALSE
    /\ UNCHANGED <<entry, backoff, statusCodes, attempt, invocations, attemptArgs>>
    /\ UNCHANGED pvars
    /\ UNCHANGED cvars
    /\ UNCHANGED svars
    /\ UNCHANGED uvars

\* the attempt rejects with e: decide whether to retry and how long to wait
OperationRejects ==
    /\ rState = "running"
    /\ \E thrown \in ErrorSet :
        LET settled == WrappedOperation(entry, OperationReturns(entry,
                           [ok |-> FALSE, result |-> NoResult, error |-> thrown]))
        IN /\ ~settled.ok
           /\ previousError' = settled.error
           /\ allSame' = (allSame /\ (invocations = 1 \/ previousError = settled.error))
           /\ AttemptSettled(FALSE, NoResult, settled.error)
    /\ UNCHANGED <<entry, backoff, statusCodes, attempt, invocations, attemptArgs>>
    /\ UNCHANGED pvars
    /\ UNCHANGED cvars
    /\ UNCHANGED svars
    /\ UNCHANGED uvars

\* mutant: the attempt number advances by two
WaitElapses_SkipsOne ==
    /\ rState = "waiting"
    /\ attempt' = attempt + 2
    /\ rState' = "calling"
    /\ UNCHANGED <<entry, backoff, statusCodes, previousError, invocations, attemptArgs, allSame, waitMs, waits, backoffArg, rOutcome>>
    /\ UNCHANGED pvars
    /\ UNCHANGED cvars
    /\ UNCHANGED svars
    /\ UNCHANGED uvars

\* the backoff wait elapses: the next attempt follows
WaitElapses ==
    /\ rState = "waiting"
    /\ attempt' = attempt + 1
    /\ rState' = "calling"
    /\ UNCHANGED <<entry, backoff, statusCodes, previousError, invocations, attemptArgs, allSame, waitMs, waits, backoffArg, rOutcome>>
    /\ UNCHANGED pvars
    /\ UNCHANGED cvars
    /\ UNCHANGED svars
    /\ UNCHANGED uvars

\* ------------------------------------------------------------------------
\* s3.ts: scanS3Bucket and listS3Objects on a bucket
\* ------------------------------------------------------------------------
\* one page of the ListObjectsV2 listing of a bucket
ListingPages ==
    { [Contents |-> cv, CommonPrefixes |-> pv] :
        cv \in {NoItemsField, ArrayOf(<<"a", "b">>), ArrayOf(<<"c">>)},
        pv \in {NoItemsField, ArrayOf(<<"p">>), ArrayOf(<<"q", "p">>)} }

\* the listings of the buckets: one page or more
Listings == SeqsUpTo(ListingPages, MaxListing) \ {<<>>}

\* the token S3 hands out with page k, to be sent back for page k + 1
ContinuationTokens == <<"t1", "t2", "t3", "t4">>
PageAfter(token) ==
    1 + (CHOOSE k \in 1..Len(ContinuationTokens) : ContinuationTokens[k] = token)

\* the fetch function of both callers: the paging parameter is not used
\*   () => s3.send(new ListObjectsV2Command({ Bucket: bucket, ...options }))
ListObjectsV2Command(pagingParam) == EmptyRequest

\* what S3 answers to a command: the first page, or the page the token names
ListObjectsV2Output(listing, command) ==
    LET k == IF command.field = "ContinuationToken" THEN PageAfter(command.value) ELSE 1
    IN [items    |-> listing[k].Contents,
        prefixes |-> listing[k].CommonPrefixes,
        field    |-> IF k < Len(listing) THEN "NextContinuationToken" ELSE "",
        value    |-> IF k < Len(listing) THEN ContinuationTokens[k] ELSE UNDEFINED]

S3Functions == {"scanS3Bucket", "listS3Objects"}
S3FilterFuncs == {"none", "notBQ"}
S3Accepted(f) == IF f = "notBQ" THEN {"a", "c", "p"} ELSE {"a", "b", "c", "p", "q"}

\* listS3Objects: response => response.NextContinuationToken
\*                    ? { ContinuationToken: response.NextContinuationToken } : null
ListS3NextParameter(response) ==
    IF Truthy(Get(response, "NextContinuationToken"))
    THEN Request("ContinuationToken", Get(response, "NextContinuationToken"))
    ELSE NoRequest

\* if (response.X) collection.x.push(...(filterFunc ? response.X.filter(...) : response.X))
PushEntries(coll, entries, f) ==
    IF entries.kind = "missing" THEN coll
    ELSE coll \o (IF f # "none" THEN SelectSeq2(entries.entries, S3Accepted(f))
                  ELSE entries.entries)

\* the reducer of listS3Objects
ListS3Collect(coll, response, f) ==
    [contents       |-> PushEntries(coll.contents, response.items, f),
     commonPrefixes |-> PushEntries(coll.commonPrefixes, response.prefixes, f)]

EmptyListing == [contents |-> <<>>, commonPrefixes |-> <<>>]
SPending == [status |-> "pending", value |-> EmptyListing, error |-> UNDEFINED]
SResolved(v) == [status |-> "resolved", value |-> v, error |-> UNDEFINED]
SRejected(e) == [status |-> "rejected", value |-> EmptyListing, error |-> e]

SInit ==
    /\ s3Function \in S3Functions
    /\ s3Filter \in (IF s3Function = "listS3Objects" THEN S3FilterFuncs ELSE {"none"})
    /\ bucket \in Listings
    /\ sState = "ready"
    /\ sParameter = EmptyRequest
    /\ sCommands = <<>>
    /\ sResponses = <<>>
    /\ sCollection = EmptyListing
    /\ sOutcome = SPending

SIdle ==
    /\ s3Function = "idle"
    /\ s3Filter = "none"
    /\ bucket = <<>>
    /\ sState = "idle"
    /\ sParameter = EmptyRequest
    /\ sCommands = <<>>
    /\ sResponses = <<>>
    /\ sCollection = EmptyListing
    /\ sOutcome = SPending

\* PromiseUtils.repeat calls the fetch function, which sends a command to S3
SendListCommand ==
    /\ sState = "ready"
    /\ Len(sCommands) < MaxPages
    /\ sCommands' = Append(sCommands, ListObjectsV2Command(sParameter))
    /\ sState' = "inflight"
    /\ UNCHANGED <<s3Function, s3Filter, bucket, sParameter, sResponses, sCollection, sOutcome>>
    /\ UNCHANGED <<pvars, rvars, cvars, uvars>>

\* S3 answers: collect, then derive the next paging parameter or return.
\* scanS3Bucket goes through fetchAllByContinuationToken (items field
\* 'Contents', no filterFunc), listS3Objects through its own callbacks
ListResolves ==
    /\ sState = "inflight"
    /\ LET output == ListObjectsV2Output(bucket, sCommands[Len(sCommands)])
           viaAdapter == s3Function = "scanS3Bucket"
           response == IF viaAdapter
                       THEN awaitItems(Returns("promise", Fulfilled(output))).response
                       ELSE output
           coll == IF viaAdapter
                   THEN [sCollection EXCEPT !.contents = Collect(@, response, "none")]
                   ELSE ListS3Collect(sCollection, response, s3Filter)
           next == IF viaAdapter
                   THEN NextParameter(AdapterNamed("fetchAllByContinuationToken"), "none", response)
                   ELSE ListS3NextParameter(response)
       IN /\ sResponses' = Append(sResponses, output)
          /\ sCollection' = coll
          /\ IF next # NoRequest
             THEN /\ sParameter' = next
                  /\ sState' = "ready"
                  /\ sOutcome' = sOutcome
             ELSE /\ sParameter' = sParameter
                  /\ sState' = "done"
                  /\ sOutcome' = SResolved(coll)
    /\ UNCHANGED <<s3Function, s3Filter, bucket, sCommands>>
    /\ UNCHANGED <<pvars, rvars, cvars, uvars>>

\* s3.send rejects: the function's promise rejects with the same error
ListRejects ==
    /\ sState = "inflight"
    /\ \E e \in FetchErrors :
        /\ sState' = "failed"
        /\ sOutcome' = SRejected(e)
    /\ UNCHANGED <<s3Function, s3Filter, bucket, sParameter, sCommands, sResponses, sCollection>>
    /\ UNCHANGED <<pvars, rvars, cvars, uvars>>

\* ------------------------------------------------------------------------
\* The classifier functions called on their own
\* ------------------------------------------------------------------------
WithThrottling(e, flag) == [e EXCEPT !.throttling = flag]

\* values a caller may hand to a classifier function
ClassifierInputs ==
    ErrorSet \cup {
        NoError,
        PlainObject,
        V2Error("OtherCode", "true", UNDEFINED),
        V2Error("ThrottlingException", "true", "429"),
        [V2Error("ThrottlingException", "true", "429") EXCEPT !.message = "absent"],
        [PlainObject EXCEPT !.statusCode = "500"],
        [PlainObject EXCEPT !.retryable = "true"],
        [PlainObject EXCEPT !.name = "ThrottlingException"],
        WithThrottling(V2Error("OtherCode", "true", "429"), "false"),
        WithThrottling(V2Error("OtherCode", "false", "429"), "true"),
        WithThrottling(WithMetadata(V2Error("OtherCode", "true", "500"), "429"), "false"),
        WithThrottling(WithMetadata(V2Error("OtherCode", "false", "500"), UNDEFINED), "true"),
        WithThrottling(PlainObject, "true"),
        WithThrottling(V3Error("ThrottlingException", "400", "absent"), "true"),
        WithThrottling(V3Error("ThrottlingException", "500", "absent"), "false"),
        [V3Error("ThrottlingException", "400", "absent") EXCEPT !.message = "absent"],
        [V3Error("ThrottlingException", "429", "absent") EXCEPT !.code = "OtherCode"],
        [V3Error("Error", "429", "absent") EXCEPT !.code = "ThrottlingException"],
        [PlainObject EXCEPT !.code = "ThrottlingException", !.message = "present"],
        [V2Error("ThrottlingException", "true", "429") EXCEPT !.name = "ThrottlingException"],
        [V3Error("Error", UNDEFINED, "absent") EXCEPT !.metadata = "undefined"],
        [V3Error("Error", UNDEFINED, "absent") EXCEPT !.message = "absent"],
        [V2Error("OtherCode", "true", "429") EXCEPT !.metadata = "undefined"] }

CInit ==
    /\ cInput \in ClassifierInputs
    /\ cCalled = "none"
    /\ cResult = Value(UNDEFINED)

CIdle ==
    /\ cInput = NoError
    /\ cCalled = "idle"
    /\ cResult = Value(UNDEFINED)

Returned(fn, result) ==
    /\ cCalled = "none"
    /\ cCalled' = fn
    /\ cResult' = result
    /\ UNCHANGED cInput
    /\ UNCHANGED <<pvars, rvars, svars, uvars>>

Call_isPossibleAwsV2Error ==
    Returned("isPossibleAwsV2Error", Value(Bool(isPossibleAwsV2Error(cInput))))
Call_isPossibleAwsV3Error ==
    Returned("isPossibleAwsV3Error", Value(Bool(isPossibleAwsV3Error(cInput))))
Call_isPossibleAwsError ==
    Returned("isPossibleAwsError", Value(Bool(isPossibleAwsError(cInput))))
Call_awsErrorStatusCode ==
    Returned("awsErrorStatusCode", awsErrorStatusCode(cInput))
Call_awsErrorRetryable ==
    Returned("awsErrorRetryable", awsErrorRetryable(cInput))
Call_isPossibleAwsThrottlingError ==
    Returned("isPossibleAwsThrottlingError", Value(Bool(isPossibleAwsThrottlingError(cInput))))

\* ------------------------------------------------------------------------
\* Two top-level calls running concurrently
\* ------------------------------------------------------------------------
CallIds == {1, 2}
ConcurrentFunctions == {"fetchAllByNextToken", "listS3Objects", "withRetry"}
IsWalk(function) == function \in {"fetchAllByNextToken", "listS3Objects"}

\* the per-call mutable state: the accumulator of a walk ([] for an adapter,
\* { contents: [], commonPrefixes: [] } for listS3Objects) and the attempt
\* number and previous error of a retry sequence
FreshState == [collection |-> EmptyListing, attempt |-> 1, previousError |-> NoError]

\* mutant: the calls work on one state held outside the call
StateOf_Shared(id) == 1

\* the state a call works on: the array literal and the result object are
\* created by the call itself, PromiseUtils keeps its state in the call's frame
StateOf(id) == id

\* the pages an upstream may answer a walk with
ConcurrentResponses(function) ==
    IF function = "fetchAllByNextToken"
    THEN { [items |-> ArrayOf(<<"a", "b">>), prefixes |-> NoItemsField,
            field |-> "NextToken", value |-> "m1"],
           [items |-> ArrayOf(<<"c">>), prefixes |-> NoItemsField,
            field |-> "", value |-> UNDEFINED] }
    ELSE { [items |-> ArrayOf(<<"a">>), prefixes |-> ArrayOf(<<"p">>),
            field |-> "NextContinuationToken", value |-> "t1"],
           [items |-> ArrayOf(<<"c">>), prefixes |-> NoItemsField,
            field |-> "", value |-> UNDEFINED] }

\* the errors an operation under withRetry may throw
ConcurrentErrors == { V3Error("Error", "429", "true"), [PlainObject EXCEPT !.message = "present"] }
ConcurrentBackoff == [kind |-> "array", arr |-> <<100, 100>>, fn |-> ""]
ConcurrentStatusCodes == [kind |-> "default", codes |-> DefaultStatusCodes]

\* the reducer and the next-parameter callback of a walk
WalkCollect(function, coll, response) ==
    IF function = "listS3Objects" THEN ListS3Collect(coll, response, "none")
    ELSE [coll EXCEPT !.contents = Collect(@, response, "none")]
WalkNextParameter(function, response) ==
    IF function = "listS3Objects" THEN ListS3NextParameter(response)
    ELSE NextParameter(AdapterNamed("fetchAllByNextToken"), "none", response)

NewCall(function) ==
    [function |-> function,
     state |-> IF IsWalk(function) THEN "ready" ELSE "calling",
     parameter |-> EmptyRequest,
     received |-> <<>>,           \* history: the responses of the call's own fetches
     thrown |-> <<>>,             \* history: the errors of the call's own attempts
     attemptArgs |-> <<>>,        \* history: attempt numbers handed to the operation
     previousErrorArgs |-> <<>>,  \* history: previous errors handed to the operation
     status |-> "pending",
     listing |-> EmptyListing,    \* value a walk resolved with
     result |-> NoResult,         \* value a retry sequence resolved with
     error |-> NoError]           \* error a retry sequence rejected with

IInit ==
    /\ calls \in [CallIds -> {NewCall(function) : function \in ConcurrentFunctions}]
    /\ memory = [slot \in CallIds |-> FreshState]

IIdle ==
    /\ calls = [id \in CallIds |-> [NewCall("withRetry") EXCEPT !.state = "idle"]]
    /\ memory = [slot \in CallIds |-> FreshState]

OthersIdle == UNCHANGED <<pvars, rvars, cvars, svars, hvars, kvars, fvars>>

\* PromiseUtils.repeat of one call: the fetch function is called
ConcurrentCallFetch ==
    /\ \E id \in CallIds :
        /\ IsWalk(calls[id].function)
        /\ calls[id].state = "ready"
        /\ Len(calls[id].received) < MaxPages
        /\ calls' = [calls EXCEPT ![id].state = "inflight"]
    /\ UNCHANGED memory
    /\ OthersIdle

\* the fetch of one call resolves: collect into the call's accumulator, then
\* derive the next request or return the accumulator
ConcurrentFetchResolves ==
    /\ \E id \in CallIds :
        /\ IsWalk(calls[id].function)
        /\ calls[id].state = "inflight"
        /\ \E response \in ConcurrentResponses(calls[id].function) :
            LET coll == WalkCollect(calls[id].function, memory[StateOf(id)].collection, response)
                next == WalkNextParameter(calls[id].function, response)
            IN /\ memory' = [memory EXCEPT ![StateOf(id)].collection = coll]
               /\ calls' = [calls EXCEPT
                     ![id].received = Append(@, response),
                     ![id].parameter = IF next # NoRequest THEN next ELSE @,
                     ![id].state = IF next # NoRequest THEN "ready" ELSE "done",
                     ![id].status = IF next # NoRequest THEN @ ELSE "resolved",
                     ![id].listing = IF next # NoRequest THEN @ ELSE coll]
    /\ OthersIdle

\* the fetch of one call rejects: the call rejects
ConcurrentFetchRejects ==
    /\ \E id \in CallIds :
        /\ IsWalk(calls[id].function)
        /\ calls[id].state = "inflight"
        /\ calls' = [calls EXCEPT ![id].state = "failed", ![id].status = "rejected"]
    /\ UNCHANGED memory
    /\ OthersIdle

\* PromiseUtils.withRetry of one call: operation(attempt, previousResult, previousError)
ConcurrentInvokeOperation ==
    /\ \E id \in CallIds :
        /\ calls[id].function = "withRetry"
        /\ calls[id].state = "calling"
        /\ calls' = [calls EXCEPT
              ![id].state = "running",
              ![id].attemptArgs = Append(@, memory[StateOf(id)].attempt),
              ![id].previousErrorArgs = Append(@, memory[StateOf(id)].previousError)]
    /\ UNCHANGED memory
    /\ OthersIdle

\* the attempt of one call resolves: the call returns the result
ConcurrentOperationResolves ==
    /\ \E id \in CallIds :
        /\ calls[id].function = "withRetry"
        /\ calls[id].state = "running"
        /\ \E r \in Results(memory[StateOf(id)].attempt) :
            /\ calls' = [calls EXCEPT ![id].state = "done", ![id].status = "resolved",
                                      ![id].result = r]
            /\ memory' = [memory EXCEPT ![StateOf(id)].previousError = NoError]
    /\ OthersIdle

\* the attempt of one call rejects: retry after the backoff, or reject
ConcurrentOperationRejects ==
    /\ \E id \in CallIds :
        /\ calls[id].function = "withRetry"
        /\ calls[id].state = "running"
        /\ \E e \in ConcurrentErrors :
            LET decision == WithRetryShouldRetry(ConcurrentStatusCodes, e)
                delay == WithRetryBackoff(ConcurrentBackoff, memory[StateOf(id)].attempt, e)
                retry == decision = "true" /\ delay.defined /\ delay.ms >= 0
            IN /\ memory' = [memory EXCEPT ![StateOf(id)].previousError = e]
               /\ calls' = [calls EXCEPT
                     ![id].thrown = Append(@, e),
                     ![id].state = IF retry THEN "waiting" ELSE "done",
                     ![id].status = IF retry THEN @ ELSE "rejected",
                     ![id].error = IF retry THEN @
                                   ELSE IF decision = "throws" THEN TypeError ELSE e]
    /\ OthersIdle

\* the backoff wait of one call elapses: its next attempt follows
ConcurrentWaitElapses ==
    /\ \E id \in CallIds :
        /\ calls[id].function = "withRetry"
        /\ calls[id].state = "waiting"
        /\ calls' = [calls EXCEPT ![id].state = "calling"]
        /\ memory' = [memory EXCEPT ![StateOf(id)].attempt = @ + 1]
    /\ OthersIdle

\* ------------------------------------------------------------------------
\* s3.ts: headS3Object
\* ------------------------------------------------------------------------
HeadKeys == {"a.jpg", "dir/b.jpg"}
HeadOutputs == {"HeadObjectCommandOutput"}

\* what s3.send(new HeadObjectCommand(...)) may reject with: service
\* exceptions of the S3 client, which carry $metadata.httpStatusCode, and
\* errors without a response
HeadErrors ==
    { V3Error(n, st, "absent") : n \in {"NotFound", "Error"},
                                 st \in {"404", "403", "500", "301", UNDEFINED} }
      \cup { WithMetadata(V2Error("NotFound", "false", "404"), "404"),
             WithMetadata(V2Error("Forbidden", "false", "404"), "403"),
             WithMetadata(V2Error("NotFound", "false", "403"), "404"),
             WithMetadata(V2Error("Error", "false", "403"), "500"),
             [V3Error("Error", UNDEFINED, "absent") EXCEPT !.metadata = "undefined"],
             [V3Error("NotFound", "404", "absent") EXCEPT !.message = "absent"],
             [PlainObject EXCEPT !.message = "present"],
             StringError,
             TypeError }

\* the arguments a caller may pass for treat403AsNonExisting
Treat403Args == {"omitted", "true", "false"}

\* mutant: the parameter defaults to true
Treat403_DefaultTrue(arg) == arg # "false"

\* treat403AsNonExisting = false
Treat403(arg) == arg = "true"

\* error.$metadata?.httpStatusCode
MetadataStatusCode(e) == IF e.metadata = "present" THEN e.httpStatusCode ELSE UNDEFINED

HPending == [status |-> "pending", value |-> UNDEFINED, error |-> NoError]
HResolved(v) == [status |-> "resolved", value |-> v, error |-> NoError]
HRejected(e) == [status |-> "rejected", value |-> UNDEFINED, error |-> e]
HeadFulfilled(output) == [ok |-> TRUE, output |-> output, error |-> NoError]
HeadFailed(e) == [ok |-> FALSE, output |-> UNDEFINED, error |-> e]

\* try { return await s3.send(...) } catch (error) {
\*   if ($metadata?.httpStatusCode === 404 || treat403AsNonExisting && ... === 403)
\*     return undefined;
\*   throw error; }
headS3Object(arg, settled) ==
    IF settled.ok THEN HResolved(settled.output)
    ELSE IF \/ MetadataStatusCode(settled.error) = "404"
            \/ (Treat403(arg) /\ MetadataStatusCode(settled.error) = "403")
         THEN HResolved(UNDEFINED)
         ELSE HRejected(settled.error)

HInit ==
    /\ treat403AsNonExisting \in Treat403Args
    /\ hKey \in HeadKeys
    /\ hState = "ready"
    /\ hSettled = HeadFulfilled(UNDEFINED)
    /\ hOutcome = HPending

HIdle ==
    /\ treat403AsNonExisting = "omitted"
    /\ hKey = ""
    /\ hState = "idle"
    /\ hSettled = HeadFulfilled(UNDEFINED)
    /\ hOutcome = HPending

HeadOthersIdle == UNCHANGED <<pvars, rvars, cvars, svars, ivars, kvars, fvars>>

\* s3.send(new HeadObjectCommand({ Bucket: bucket, Key: key }))
SendHeadCommand ==
    /\ hState = "ready"
    /\ hState' = "sent"
    /\ UNCHANGED <<treat403AsNonExisting, hKey, hSettled, hOutcome>>
    /\ HeadOthersIdle

\* the object exists: the output is returned
HeadResolves ==
    /\ hState = "sent"
    /\ \E output \in HeadOutputs :
        /\ hSettled' = HeadFulfilled(output)
        /\ hOutcome' = headS3Object(treat403AsNonExisting, HeadFulfilled(output))
    /\ hState' = "done"
    /\ UNCHANGED <<treat403AsNonExisting, hKey>>
    /\ HeadOthersIdle

\* the request fails: undefined is returned or the error is rethrown
HeadRejects ==
    /\ hState = "sent"
    /\ \E e \in HeadErrors :
        /\ hSettled' = HeadFailed(e)
        /\ hOutcome' = headS3Object(treat403AsNonExisting, HeadFailed(e))
    /\ hState' = "done"
    /\ UNCHANGED <<treat403AsNonExisting, hKey>>
    /\ HeadOthersIdle

\* ------------------------------------------------------------------------
\* s3.ts: encodeS3ObjectKey and decodeS3ObjectKey
\* ------------------------------------------------------------------------
MaxKeyLen == 3          \* object keys have at most this many characters

\* A string is the sequence of its characters.  U4E2D stands for the one
\* character U+4E2D, whose UTF-8 encoding is E4 B8 AD.
KeyChars == {"a", " ", "+", "/", "%", "2", "0", "F", "U4E2D"}
Keys == SeqsUpTo(KeyChars, MaxKeyLen)

RECURSIVE Flatten(_)
Flatten(parts) == IF parts = <<>> THEN <<>> ELSE Head(parts) \o Flatten(Tail(parts))

\* encodeURIComponent: letters and digits are kept, the rest is percent-encoded
EscapeOf(c) ==
    IF c = " " THEN <<"%", "2", "0">>
    ELSE IF c = "+" THEN <<"%", "2", "B">>
    ELSE IF c = "/" THEN <<"%", "2", "F">>
    ELSE IF c = "%" THEN <<"%", "2", "5">>
    ELSE IF c = "U4E2D" THEN <<"%", "E", "4", "%", "B", "8", "%", "A", "D">>
    ELSE <<c>>
encodeURIComponent(s) == Flatten([i \in 1..Len(s) |-> EscapeOf(s[i])])

StartsWith(s, pattern) ==
    Len(s) >= Len(pattern) /\ SubSeq(s, 1, Len(pattern)) = pattern

RECURSIVE replaceAll(_, _, _)
\* String.prototype.replaceAll with a string pattern: left to right, without overlap
replaceAll(s, pattern, replacement) ==
    IF s = <<>> THEN <<>>
    ELSE IF StartsWith(s, pattern)
         THEN replacement \o replaceAll(SubSeq(s, Len(pattern) + 1, Len(s)), pattern, replacement)
         ELSE <<Head(s)>> \o replaceAll(Tail(s), pattern, replacement)

\* decodeURIComponent: every escape sequence is replaced by its character; a
\* '%' that does not start one raises a URIError
URIError == <<"URIError">>
EscapedChars == {" ", "+", "/", "%", "U4E2D"}
RECURSIVE DecodeEscapes(_)
DecodeEscapes(s) ==
    IF s = <<>> THEN <<>>
    ELSE IF Head(s) = "%"
         THEN IF \E c \in EscapedChars : StartsWith(s, EscapeOf(c))
              THEN LET c == CHOOSE x \in EscapedChars : StartsWith(s, EscapeOf(x))
                   IN <<c>> \o DecodeEscapes(SubSeq(s, Len(EscapeOf(c)) + 1, Len(s)))
              ELSE URIError
         ELSE <<Head(s)>> \o DecodeEscapes(Tail(s))
decodeURIComponent(s) ==
    LET d == DecodeEscapes(s)
    IN IF \E i \in 1..Len(d) : d[i] = "URIError" THEN URIError ELSE d

\* encodeURIComponent(key).replaceAll('%20', '+').replaceAll('%2F', '/')
encodeS3ObjectKey(k) ==
    replaceAll(replaceAll(encodeURIComponent(k), <<"%", "2", "0">>, <<"+">>),
               <<"%", "2", "F">>, <<"/">>)

\* mutant: '+' is not turned back into a space
decodeS3ObjectKey_PlusKept(k) == decodeURIComponent(k)

\* decodeURIComponent(key.replaceAll('+', '%20'))
decodeS3ObjectKey(k) == decodeURIComponent(replaceAll(k, <<"+">>, <<"%", "2", "0">>))

KInit ==
    /\ key \in Keys
    /\ kState = "start"
    /\ encoded = <<>>
    /\ decoded = <<>>

KIdle ==
    /\ key = <<>>
    /\ kState = "idle"
    /\ encoded = <<>>
    /\ decoded = <<>>

KeyOthersIdle == UNCHANGED <<pvars, rvars, cvars, svars, ivars, hvars, fvars>>

Call_encodeS3ObjectKey ==
    /\ kState = "start"
    /\ encoded' = encodeS3ObjectKey(key)
    /\ kState' = "encoded"
    /\ UNCHANGED <<key, decoded>>
    /\ KeyOthersIdle

Call_decodeS3ObjectKey ==
    /\ kState = "encoded"
    /\ decoded' = decodeS3ObjectKey(encoded)
    /\ kState' = "decoded"
    /\ UNCHANGED <<key, encoded>>
    /\ KeyOthersIdle

\* ------------------------------------------------------------------------
\* AwsUtils.fibonacciRetryConfigurationOptions
\* ------------------------------------------------------------------------
FIBONACCI_SEQUENCE ==
    <<1, 2, 3, 5, 8, 13, 21, 34, 55, 89, 144, 233, 377, 610, 987, 1597, 2584, 4181,
      6765, 10946, 17711, 28657, 46368, 75025, 121393, 196418, 317811>>
\* [...FIBONACCI_SEQUENCE, -1]
FIBONACCI_SEQUENCE_BACKOFFS == Append(FIBONACCI_SEQUENCE, -1)

\* the arguments a caller may pass
MaxRetriesArgs == -2..(Len(FIBONACCI_SEQUENCE_BACKOFFS) + 1)
BaseOmitted == [given |-> FALSE, value |-> 0]
BaseArgs == {BaseOmitted} \cup { [given |-> TRUE, value |-> b] : b \in {1, 250, 0, -2} }
\* base = 100
BaseValue(arg) == IF arg.given THEN arg.value ELSE 100

\* the retry counts customBackoff may be called with: the indexes of the array
RetryCounts == 0..(Len(FIBONACCI_SEQUENCE_BACKOFFS) - 1)

FThrows == [throws |-> TRUE, maxRetries |-> 0, delay |-> 0]
FReturns(mr) == [throws |-> FALSE, maxRetries |-> mr, delay |-> 0]

\* mutant: the upper limit is the length of the array
fibonacciRetryConfigurationOptions_LengthAllowed(mr) ==
    IF mr < 0 \/ mr > Len(FIBONACCI_SEQUENCE_BACKOFFS) THEN FThrows ELSE FReturns(mr)

\* if (maxRetries < 0 || maxRetries > FIBONACCI_SEQUENCE_BACKOFFS.length - 1) throw ...
\* return { maxRetries, retryDelayOptions: { customBackoff: ... } }
fibonacciRetryConfigurationOptions(mr) ==
    IF mr < 0 \/ mr > Len(FIBONACCI_SEQUENCE_BACKOFFS) - 1 THEN FThrows ELSE FReturns(mr)

\* customBackoff: i => base * FIBONACCI_SEQUENCE_BACKOFFS[i]
customBackoff(b, i) == b * FIBONACCI_SEQUENCE_BACKOFFS[i + 1]

FInit ==
    /\ maxRetries \in MaxRetriesArgs
    /\ base \in BaseArgs
    /\ fState = "start"
    /\ retryCount = 0
    /\ fResult = FReturns(0)

FIdle ==
    /\ maxRetries = 0
    /\ base = BaseOmitted
    /\ fState = "idle"
    /\ retryCount = 0
    /\ fResult = FReturns(0)

FibOthersIdle == UNCHANGED <<pvars, rvars, cvars, svars, ivars, hvars, kvars>>

Call_fibonacciRetryConfigurationOptions ==
    /\ fState = "start"
    /\ fResult' = fibonacciRetryConfigurationOptions(maxRetries)
    /\ fState' = IF fResult'.throws THEN "threw" ELSE "returned"
    /\ UNCHANGED <<maxRetries, base, retryCount>>
    /\ FibOthersIdle

\* the SDK asks the returned customBackoff for the delay of a retry
Call_customBackoff ==
    /\ fState = "returned"
    /\ \E i \in RetryCounts :
        /\ retryCount' = i
        /\ fResult' = [fResult EXCEPT !.delay = customBackoff(BaseValue(base), i)]
    /\ fState' = "backoff"
    /\ UNCHANGED <<maxRetries, base>>
    /\ FibOthersIdle

UIdle == IIdle /\ HIdle /\ KIdle /\ FIdle

\* ------------------------------------------------------------------------
\* Specifications
\* ------------------------------------------------------------------------
ClassifyInit == PIdle /\ RIdle /\ CInit /\ SIdle /\ UIdle
ClassifyNext ==
    \/ Call_isPossibleAwsV2Error
    \/ Call_isPossibleAwsV3Error
    \/ Call_isPossibleAwsError
    \/ Call_awsErrorStatusCode
    \/ Call_awsErrorRetryable
    \/ Call_isPossibleAwsThrottlingError
ClassifySpec == ClassifyInit /\ [][ClassifyNext]_vars

PageInit == PInit /\ RIdle /\ CIdle /\ SIdle /\ UIdle
PageNext == CallFetch \/ FetchResolves \/ FetchRejects
PageSpec == PageInit /\ [][PageNext]_vars

RetryInit == PIdle /\ RInit /\ CIdle /\ SIdle /\ UIdle
RetryNext == InvokeOperation \/ OperationResolves \/ OperationRejects \/ WaitElapses
RetrySpec == RetryInit /\ [][RetryNext]_vars
\* every attempt settles and every wait elapses
FairRetrySpec == RetrySpec /\ WF_vars(RetryNext)

\* one call of a pagination adapter, or one call of withRetry / promiseWithRetry
SeqInit == PageInit \/ RetryInit
SeqNext == PageNext \/ RetryNext
SeqSpec == SeqInit /\ [][SeqNext]_vars

S3Init == PIdle /\ RIdle /\ CIdle /\ SInit /\ UIdle
S3Next == SendListCommand \/ ListResolves \/ ListRejects
S3Spec == S3Init /\ [][S3Next]_vars

\* one pagination walk: a call of an adapter, of scanS3Bucket or of listS3Objects
WalkInit == PageInit \/ S3Init
WalkNext == PageNext \/ S3Next
WalkSpec == WalkInit /\ [][WalkNext]_vars

\* two calls, each of an adapter, of listS3Objects or of withRetry, interleaved
ConcurrentInit == PIdle /\ RIdle /\ CIdle /\ SIdle /\ IInit /\ HIdle /\ KIdle /\ FIdle
ConcurrentNext ==
    \/ ConcurrentCallFetch
    \/ ConcurrentFetchResolves
    \/ ConcurrentFetchRejects
    \/ ConcurrentInvokeOperation
    \/ ConcurrentOperationResolves
    \/ ConcurrentOperationRejects
    \/ ConcurrentWaitElapses
ConcurrentSpec == ConcurrentInit /\ [][ConcurrentNext]_vars

HeadInit == PIdle /\ RIdle /\ CIdle /\ SIdle /\ IIdle /\ HInit /\ KIdle /\ FIdle
HeadNext == SendHeadCommand \/ HeadResolves \/ HeadRejects
HeadSpec == HeadInit /\ [][HeadNext]_vars

KeyInit == PIdle /\ RIdle /\ CIdle /\ SIdle /\ IIdle /\ HIdle /\ KInit /\ FIdle
KeyNext == Call_encodeS3ObjectKey \/ Call_decodeS3ObjectKey
KeySpec == KeyInit /\ [][KeyNext]_vars

FibInit == PIdle /\ RIdle /\ CIdle /\ SIdle /\ IIdle /\ HIdle /\ KIdle /\ FInit
FibNext == Call_fibonacciRetryConfigurationOptions \/ Call_customBackoff
FibSpec == FibInit /\ [][FibNext]_vars

\* ------------------------------------------------------------------------
\* Properties of the pagination adapters (checked under PageSpec)
\* ------------------------------------------------------------------------
SixAdapters == {"fetchAllByPosition", "fetchAllByNextToken", "fetchAllByNextTokenV3",
                "fetchAllByMarker", "fetchAllByContinuationToken",
                "fetchAllByExclusiveStartKey"}

\* the item array of a page (empty when the page has none)
PageItems(response) ==
    IF response.items.kind = "array" THEN response.items.entries ELSE <<>>

RECURSIVE ConcatPages(_)
\* the item arrays of a sequence of pages, concatenated in page order
ConcatPages(pages) ==
    IF pages = <<>> THEN <<>> ELSE PageItems(Head(pages)) \o ConcatPages(Tail(pages))

RECURSIVE SumCounts(_)
SumCounts(pages) ==
    IF pages = <<>> THEN 0 ELSE Len(PageItems(Head(pages))) + SumCounts(Tail(pages))

\* the page carries a continuation value (a non-empty cursor) in the adapter's field
CarriesContinuation(a, response) ==
    response.field = a.respField /\ response.value \notin {UNDEFINED, "", ZERO}

\* the page omits the adapter's continuation field
OmitsField(a, response) == response.field # a.respField

\* C1: Pagination completeness.  For each of the six adapters called without
\* a filter: a walk returns exactly when it has received a page that carries
\* no continuation value, every page before it carried one, and the value
\* returned is the concatenation, in page order, of the item arrays of all
\* the pages; its length is the sum of the page item counts.
C1_PaginationCompleteness ==
    (adapter.name \in SixAdapters /\ filterFunc = "none") =>
        /\ \A k \in 1..Len(responses) :
              CarriesContinuation(adapter, responses[k]) <=>
                  (k < Len(requests) \/ pState = "ready")
        /\ pState = "done" =>
              /\ pOutcome = Resolved(ConcatPages(responses))
              /\ Len(pOutcome.value) = SumCounts(responses)
              /\ Len(requests) = Len(responses)

\* a walk of three pages by fetchAllByExclusiveStartKey that returned five items
C1_Witness ==
    /\ pState = "done"
    /\ adapter.name = "fetchAllByExclusiveStartKey"
    /\ filterFunc = "none"
    /\ Len(responses) = 3
    /\ \A k \in 1..2 : CarriesContinuation(adapter, responses[k])
    /\ pOutcome.value = <<"d", "e", "a", "b", "c">>

ThreePageListing ==
    << Response(ArrayOf(<<"a", "b">>), "NextMarker", "m1"),
       Response(ArrayOf(<<"c">>), "NextMarker", "m2"),
       Response(ArrayOf(<<"d", "e">>), "", UNDEFINED) >>

\* C2: Cursor following in fetchAllByMarker.  The first fetch receives an
\* empty request; the request of fetch k+1 is {Marker: v} with v the
\* NextMarker of response k; on the three-page listing ([a,b], m1), ([c], m2),
\* ([d,e], no marker) there are exactly 3 fetches, with {Marker: m1} and
\* {Marker: m2} as second and third request, and the result is [a,b,c,d,e].
C2_CursorFollowing ==
    adapter.name = "fetchAllByMarker" =>
        /\ Len(requests) >= 1 => requests[1] = EmptyRequest
        /\ \A k \in 1..(Len(requests) - 1) :
              /\ k <= Len(responses)
              /\ responses[k].field = "NextMarker"
              /\ requests[k + 1] = [field |-> "Marker", value |-> responses[k].value]
        /\ (responses = ThreePageListing /\ filterFunc = "none") =>
              /\ pState = "done"
              /\ Len(requests) = 3
              /\ requests[2] = [field |-> "Marker", value |-> "m1"]
              /\ requests[3] = [field |-> "Marker", value |-> "m2"]
              /\ pOutcome = Resolved(<<"a", "b", "c", "d", "e">>)

\* the three-page listing has been walked by fetchAllByMarker
C2_Witness ==
    /\ adapter.name = "fetchAllByMarker"
    /\ filterFunc = "none"
    /\ responses = ThreePageListing
    /\ Len(requests) = 3

\* C3: Termination on absent continuation.  For every adapter, once a page
\* response omits the adapter's continuation field the walk has returned and
\* no further fetch is issued: that page is the last response, and the number
\* of fetches equals its index, the index of the first page omitting the field.
C3_TerminationOnAbsent ==
    \A k \in 1..Len(responses) :
        OmitsField(adapter, responses[k]) =>
            /\ pState = "done"
            /\ pOutcome.status = "resolved"
            /\ Len(requests) = k
            /\ Len(responses) = k
            /\ \A j \in 1..(k - 1) : ~OmitsField(adapter, responses[j])

\* fetchAllByContinuationToken returned after a second page without the field
C3_Witness ==
    /\ adapter.name = "fetchAllByContinuationToken"
    /\ Len(responses) = 2
    /\ OmitsField(adapter, responses[2])
    /\ responses[2].field = ""
    /\ pState = "done"
    /\ Len(requests) = 2

\* the walk that the same pages give when no filterFunc is supplied
RECURSIVE UnfilteredWalk(_, _)
UnfilteredWalk(coll, pages) ==
    IF pages = <<>> THEN coll
    ELSE UnfilteredWalk(Collect(coll, Head(pages), "none"), Tail(pages))

Passes(item) == item \in Accepted(filterFunc)

\* C4: Filter correctness.  For every adapter and per-item predicate, at every
\* point of the walk the accumulator equals the unfiltered accumulation of the
\* same pages with the items failing the predicate removed and the order of
\* the others kept; no failing item is ever in the accumulator; and the value
\* returned is that of the unfiltered walk with the failing items removed.
C4_FilterCorrectness ==
    filterFunc # "none" =>
        /\ collection = SelectSeq(UnfilteredWalk(<<>>, responses), Passes)
        /\ \A i \in 1..Len(collection) : Passes(collection[i])
        /\ pState = "done" =>
              pOutcome = Resolved(SelectSeq(UnfilteredWalk(<<>>, responses), Passes))

\* a filtered walk of fetchAllWithPagination that dropped items of two pages
C4_Witness ==
    /\ pState = "done"
    /\ adapter.name = "fetchAllWithPagination"
    /\ filterFunc = "onlyBD"
    /\ Len(responses) = 3
    /\ UnfilteredWalk(<<>>, responses) = <<"a", "b", "c", "d", "e">>
    /\ pOutcome.value = <<"b", "d">>

\* ------------------------------------------------------------------------
\* Properties of withRetry (checked under RetrySpec)
\* ------------------------------------------------------------------------
\* the error has one of the two recognized shapes
RecognizedShape(e) ==
    /\ e.kind = "object"
    /\ e.message # "absent"
    /\ (e.metadata # "absent" \/ (e.retryable # "absent" /\ e.code # "absent"))

\* the status code an error carries: the nested one, else the direct one
ErrorStatusCode(e) ==
    IF e.metadata # "absent" /\ e.httpStatusCode # UNDEFINED THEN e.httpStatusCode
    ELSE e.statusCode

\* the error is a throttling error
ThrottlingError(e) ==
    /\ RecognizedShape(e)
    /\ \/ e.metadata # "absent" /\ e.name = "ThrottlingException"
       \/ e.retryable # "absent" /\ e.code # "absent" /\ e.code = "ThrottlingException"

\* the error is retryable: flagged retryable, or a throttling error
RetryableError(e) ==
    /\ RecognizedShape(e)
    /\ \/ e.throttling = "true"
       \/ e.throttling = "absent" /\ e.retryable = "true"
       \/ ThrottlingError(e)

\* the status codes for which the statusCodes argument permits a retry
InFilter(sc, code) == sc.kind = "null" \/ code \in sc.codes

RECURSIVE AllNonNegative(_)
AllNonNegative(arr) ==
    IF arr = <<>> THEN TRUE ELSE Head(arr) >= 0 /\ AllNonNegative(Tail(arr))

\* C5: Retry count for a bounded schedule.  With a backoff array of K
\* non-negative delays and an operation failing on every attempt with the same
\* retryable error whose status code is in the statusCodes filter, withRetry
\* invokes the operation exactly K+1 times and then rejects with that error.
C5_RetryCountBounded ==
    ( /\ backoff.kind \in {"array", "default"}
      /\ AllNonNegative(backoff.arr)
      /\ allSame /\ invocations >= 1 /\ rState \in {"waiting", "calling", "done"}
      /\ RetryableError(previousError)
      /\ InFilter(statusCodes, ErrorStatusCode(previousError)) )
    => /\ invocations <= Len(backoff.arr) + 1
       /\ rState = "done" =>
             /\ invocations = Len(backoff.arr) + 1
             /\ rOutcome = RRejected(previousError)

\* C6: Retry suppressed by the default status-code filter.  Without a statusCodes
\* argument, an operation failing with a throttling error whose status code is
\* not 429 is invoked exactly once and withRetry rejects with the error thrown.
C6_DefaultFilterSuppressesRetry ==
    ( /\ statusCodes.kind = "default"
      /\ allSame /\ invocations >= 1 /\ rState \in {"waiting", "calling", "done"}
      /\ ThrottlingError(previousError)
      /\ ErrorStatusCode(previousError) # "429" )
    => /\ rState = "done"
       /\ invocations = 1
       /\ rOutcome = RRejected(previousError)

\* the two conditions of the retry decision, for the error of the failed attempt
RetryConditions(sc, e) ==
    /\ awsErrorRetryable(e).value = "true" \/ isPossibleAwsThrottlingError(e)
    /\ sc.kind = "null" \/ ErrorStatusCode(e) \in sc.codes

\* C7: Retry decision.  After a failed attempt another attempt is made only
\* if the error is classified retryable or throttling and statusCodes is null
\* or contains the error's status code; if either condition fails the call
\* has settled with a rejection and the operation is not invoked again.
C7_RetryDecision ==
    /\ rState \in {"waiting", "calling", "running"} /\ invocations >= 1 /\ attempt > 1
          => RetryConditions(statusCodes, previousError)
    /\ rState = "waiting" => RetryConditions(statusCodes, previousError)
    /\ (previousError # NoError /\ ~RetryConditions(statusCodes, previousError))
          => /\ rState = "done"
             /\ rOutcome.status = "rejected"
             /\ invocations = Len(attemptArgs)
             /\ invocations = attempt

\* a retry was authorized for a throttling error under an explicit filter and
\* a later attempt failed both conditions
C7_Witness ==
    /\ rState = "done"
    /\ invocations = 2
    /\ statusCodes.kind = "array"
    /\ statusCodes.codes = {"400", "429"}
    /\ waits # <<>>
    /\ previousError = V3Error("Error", "500", "true")

RECURSIVE LeadingNonNegative(_)
\* how many delays a backoff array offers before it ends or turns negative
LeadingNonNegative(arr) ==
    IF arr = <<>> \/ Head(arr) < 0 THEN 0 ELSE 1 + LeadingNonNegative(Tail(arr))

\* the operation keeps failing with error e and is retried as the schedule says
RetriedPerSchedule(e) ==
    ( /\ statusCodes.kind = "default"
      /\ backoff.kind \in {"array", "default"}
      /\ allSame /\ invocations >= 1 /\ rState \in {"waiting", "calling", "done"}
      /\ previousError = e )
    => /\ invocations <= LeadingNonNegative(backoff.arr) + 1
       /\ rState = "done" =>
             /\ invocations = LeadingNonNegative(backoff.arr) + 1
             /\ rOutcome = RRejected(e)

\* C8: SDK v2 errors are retried.  With the default statusCodes, an error of the
\* older shape only (code, message, retryable = true, statusCode = 429, no
\* $metadata) is retried according to the backoff schedule exactly as an error
\* of the newer shape with $retryable.throttling = true and httpStatusCode 429.
C8_V2ErrorsRetried ==
    /\ RetriedPerSchedule(V3Error("Error", "429", "true"))
    /\ RetriedPerSchedule(V2Error("OtherCode", "true", "429"))

\* the schedule delay for the retry that follows the attempt in progress
ScheduleDelay == BackoffMs(backoff, attempt).ms

MaxOf(x, y) == IF x >= y THEN x ELSE y

AdvisedMs == { e.retryDelay * 1000 : e \in {x \in ErrorSet : x.hasRetryDelay} }

\* C10: Backoff array indexing.  With an array backoff, the schedule delay
\* waited before the k-th retry (before attempt k+1) is the k-th element of
\* the array, backoff[k-1]; the first element is the delay before attempt 2.
C10_BackoffArrayIndexing ==
    backoff.kind \in {"array", "default"} =>
        /\ Len(waits) <= Len(backoff.arr)
        /\ \A k \in 1..Len(waits) :
              /\ waits[k] >= backoff.arr[k]
              /\ waits[k] = backoff.arr[k] \/ waits[k] \in AdvisedMs
              /\ Len(attemptArgs) > k => attemptArgs[k + 1] = k + 1
        /\ rState = "waiting" =>
              /\ Len(waits) = invocations
              /\ ~previousError.hasRetryDelay => waitMs = backoff.arr[invocations]
        /\ Len(attemptArgs) >= 2 => waits[1] >= backoff.arr[1]

\* the second element of an array was waited before attempt 3
C10_Witness ==
    /\ backoff.kind = "array"
    /\ backoff.arr = <<3000, 100>>
    /\ waits = <<3000, 100>>
    /\ attemptArgs = <<1, 2, 3>>

\* C11: Attempt argument of the backoff function.  The first call of a
\* caller-supplied backoff function, made after attempt 1 failed and before the
\* first retry, receives attempt = 2.
C11_BackoffAttemptStartsFrom2 ==
    (backoff.kind = "function" /\ invocations = 1 /\ backoffArg # 0) => backoffArg = 2

\* an attempt has failed and has not been followed by a wait that elapsed
AttemptFailed ==
    /\ invocations >= 1
    /\ invocations = attempt
    /\ rState \in {"waiting", "done"}
    /\ previousError # NoError

\* the schedule signals stop for the current attempt: no array element, no
\* value from the function, or a negative number
StopSignal ==
    LET scheduled == BackoffMs(backoff, attempt)
    IN ~scheduled.defined \/ scheduled.ms < 0

\* C12: Schedule stop.  When an attempt has failed and for that attempt the
\* backoff array has no element, the backoff function returns undefined, or
\* either yields a negative number, the operation is not invoked again and
\* withRetry rejects with the last error, also when the error carries a
\* server-advised retryDelay.
C12_ScheduleStop ==
    (AttemptFailed /\ StopSignal) =>
        /\ rState = "done"
        /\ rOutcome = RRejected(previousError)

\* C13: Failure semantics.  For every error value the operation can throw,
\* whenever withRetry rejects it rejects with exactly the most recent error
\* thrown by the operation.
C13_FailureSemantics ==
    rOutcome.status = "rejected" =>
        /\ rState = "done"
        /\ rOutcome.error = previousError

\* C14: Success ends the retry sequence.  Once an attempt has resolved,
\* withRetry has resolved with the result of that attempt (the last one
\* invoked) and the operation is not invoked again, whatever the backoff and
\* statusCodes are; and withRetry resolves in no other way.
C14_SuccessEnds ==
    /\ (invocations >= 1 /\ previousError = NoError /\ rState # "running") =>
          /\ rState = "done"
          /\ rOutcome.status = "resolved"
          /\ rOutcome.value \in Results(invocations)
          /\ invocations = attempt
          /\ attemptArgs[invocations] = attempt
    /\ rOutcome.status = "resolved" =>
          /\ rState = "done"
          /\ previousError = NoError

\* promiseWithRetry resolved with the result of the third attempt
C14_Witness ==
    /\ entry = "promiseWithRetry"
    /\ rState = "done"
    /\ invocations = 3
    /\ Len(waits) = 2
    /\ rOutcome = RResolved([value |-> "r2", from |-> 3])

\* C15: An empty statusCodes array disables retry.  With statusCodes = [],
\* for every error and every backoff the operation is invoked exactly once:
\* after the first attempt settles, withRetry has settled.
C15_EmptyStatusCodes ==
    (statusCodes.kind = "array" /\ statusCodes.codes = {}) =>
        /\ invocations <= 1
        /\ waits = <<>>
        /\ rState \in {"calling", "running", "done"}
        /\ rState = "calling" => invocations = 0
        /\ rState = "done" => invocations = 1

\* with statusCodes = [] a retryable error with status 429 was not retried
C15_Witness ==
    /\ statusCodes.kind = "array"
    /\ statusCodes.codes = {}
    /\ backoff.kind = "default"
    /\ rState = "done"
    /\ invocations = 1
    /\ previousError = V3Error("Error", "429", "true")
    /\ rOutcome = RRejected(previousError)

\* C16: statusCodes = null disables the status-code filter.  With statusCodes
\* = null, a failed attempt for which the schedule offers a delay is followed
\* by a retry if and only if its error is classified retryable or throttling,
\* whatever its status code, an absent one included.
C16_NullStatusCodes ==
    (statusCodes.kind = "null" /\ AttemptFailed /\ ~StopSignal) =>
        (rState = "waiting" <=> RetryableError(previousError))

\* C17: Foreign errors are never retried.  When the operation throws a value
\* of neither recognized shape, withRetry rejects with that same value and the
\* operation is not invoked again, for every backoff and statusCodes; thrown
\* by the first attempt, the operation is invoked exactly once.
C17_ForeignErrors ==
    (invocations >= 1 /\ rState # "running" /\ previousError # NoError
        /\ ~RecognizedShape(previousError)) =>
        /\ rState = "done"
        /\ rOutcome = RRejected(previousError)
        /\ invocations = attempt
        /\ allSame => invocations = 1

\* an object with a message only was thrown under statusCodes = null
C17_Witness ==
    /\ statusCodes.kind = "null"
    /\ backoff.kind = "default"
    /\ rState = "done"
    /\ invocations = 1
    /\ previousError = [PlainObject EXCEPT !.message = "present"]
    /\ rOutcome = RRejected(previousError)

\* ------------------------------------------------------------------------
\* Properties of the classifier functions (checked under ClassifySpec)
\* ------------------------------------------------------------------------
ClassifierFunctions ==
    {"isPossibleAwsV2Error", "isPossibleAwsV3Error", "isPossibleAwsError",
     "awsErrorStatusCode", "awsErrorRetryable", "isPossibleAwsThrottlingError"}

\* C18: The classifier functions are total.  For every input, null,
\* non-objects and objects lacking a $metadata object included, each of the
\* six functions returns a value and none throws.
C18_ClassifierTotality ==
    cCalled \in ClassifierFunctions => ~cResult.throws

\* C19: awsErrorStatusCode.  For an error object, the function returns
\* $metadata.httpStatusCode when the error has one, otherwise the error's
\* direct statusCode field, and undefined when neither is present.
C19_StatusCode ==
    (cCalled = "awsErrorStatusCode" /\ cInput.kind = "object") =>
        cResult = Value(IF cInput.metadata = "present" /\ cInput.httpStatusCode # UNDEFINED
                        THEN cInput.httpStatusCode
                        ELSE cInput.statusCode)

\* C20: awsErrorRetryable.  For an error (anything but null and undefined),
\* the function returns $retryable.throttling when that flag is defined, also
\* when it is false and the direct retryable field is true; otherwise the
\* direct retryable field; and false when neither is defined.
C20_Retryable ==
    (cCalled = "awsErrorRetryable" /\ cInput.kind \in {"object", "primitive"}) =>
        /\ ~cResult.throws
        /\ cInput.throttling # "absent" => cResult.value = cInput.throttling
        /\ (cInput.throttling = "absent" /\ cInput.retryable # "absent")
              => cResult.value = cInput.retryable
        /\ (cInput.throttling = "absent" /\ cInput.retryable = "absent")
              => cResult.value = "false"

\* the nested flag false was returned for an error with retryable = true
C20_Witness ==
    /\ cCalled = "awsErrorRetryable"
    /\ cInput.kind = "object"
    /\ cInput.throttling = "false"
    /\ cInput.retryable = "true"
    /\ cResult = Value("false")

\* an object with a $metadata block and name 'ThrottlingException'
NamedThrottling(e) ==
    e.kind = "object" /\ e.metadata = "present" /\ e.name = "ThrottlingException"

\* C21 (as stated): Throttling classification.  Every error object with a
\* $metadata block and name 'ThrottlingException' is classified as throttling
\* by isPossibleAwsThrottlingError and as retryable by awsErrorRetryable,
\* whatever its status code is.
C21_ThrottlingClassification ==
    NamedThrottling(cInput) =>
        /\ cCalled = "isPossibleAwsThrottlingError" => cResult = Value("true")
        /\ cCalled = "awsErrorRetryable" => cResult = Value("true")

\* C21 (amended): every object with a $metadata block, a message and name
\* 'ThrottlingException' is classified as throttling by
\* isPossibleAwsThrottlingError, whatever its status code is; awsErrorRetryable
\* returns true for it only if its $retryable.throttling flag is true or, the
\* flag being undefined, its retryable field is true.
C21_ThrottlingClassification_ByName ==
    (NamedThrottling(cInput) /\ cInput.message # "absent") =>
        /\ cCalled = "isPossibleAwsThrottlingError" => cResult = Value("true")
        /\ cCalled = "awsErrorRetryable" =>
              /\ ~cResult.throws
              /\ cResult.value = "true" <=>
                    \/ cInput.throttling = "true"
                    \/ cInput.throttling = "absent" /\ cInput.retryable = "true"

\* the error of the repository's test, HTTP 400, was classified as throttling
C21_Witness ==
    /\ cCalled = "isPossibleAwsThrottlingError"
    /\ cInput = v3ThrottlingErrorWith400
    /\ cInput.httpStatusCode = "400"
    /\ cResult = Value("true")

\* C22: isPossibleAwsThrottlingError(error) is true if and only if error is a
\* non-null object with $metadata and message whose name is
\* 'ThrottlingException', or a non-null object with retryable, code and
\* message whose code is 'ThrottlingException'.
C22_ThrottlingIff ==
    cCalled = "isPossibleAwsThrottlingError" =>
        /\ ~cResult.throws
        /\ cResult.value = "true" <=>
              /\ cInput.kind = "object"
              /\ cInput.message # "absent"
              /\ \/ cInput.metadata # "absent" /\ cInput.name = "ThrottlingException"
                 \/ /\ cInput.retryable # "absent"
                    /\ cInput.code # "absent"
                    /\ cInput.code = "ThrottlingException"
        /\ cResult.value \in {"true", "false"}

\* an older-shape error with code 'ThrottlingException' was classified
C22_Witness ==
    /\ cCalled = "isPossibleAwsThrottlingError"
    /\ cInput = V2Error("ThrottlingException", "true", "429")
    /\ cInput.metadata = "absent"
    /\ cResult = Value("true")

\* only the older fields: code, retryable, statusCode, message, no $metadata
OnlyOlderFields(e) ==
    /\ e.kind = "object"
    /\ e.code # "absent" /\ e.retryable # "absent" /\ e.message # "absent"
    /\ e.metadata = "absent" /\ e.throttling = "absent"

\* only the newer fields: $metadata, message, name, no code, no retryable
OnlyNewerFields(e) ==
    /\ e.kind = "object"
    /\ e.metadata = "present" /\ e.message # "absent"
    /\ e.code = "absent" /\ e.retryable = "absent"

\* C23: Dual-shape classification exclusivity.  An error with only the older
\* fields satisfies isPossibleAwsV2Error and not isPossibleAwsV3Error; an error
\* with only the newer fields satisfies isPossibleAwsV3Error and not
\* isPossibleAwsV2Error; isPossibleAwsError holds exactly when at least one
\* of the two holds.
C23_ShapeExclusivity ==
    /\ OnlyOlderFields(cInput) =>
          /\ cCalled = "isPossibleAwsV2Error" => cResult = Value("true")
          /\ cCalled = "isPossibleAwsV3Error" => cResult = Value("false")
    /\ OnlyNewerFields(cInput) =>
          /\ cCalled = "isPossibleAwsV3Error" => cResult = Value("true")
          /\ cCalled = "isPossibleAwsV2Error" => cResult = Value("false")
    /\ cCalled = "isPossibleAwsError" =>
          cResult = Value(Bool(RecognizedShape(cInput)))

\* an older-shape error was refused by isPossibleAwsV3Error
C23_Witness ==
    /\ cCalled = "isPossibleAwsV3Error"
    /\ OnlyOlderFields(cInput)
    /\ cInput.statusCode = "429"
    /\ cResult = Value("false")

\* ------------------------------------------------------------------------
\* Further properties of the pagination adapters (checked under PageSpec)
\* ------------------------------------------------------------------------
\* C24: Pagination error propagation.  If a fetch of a walk fails, the
\* adapter's call has failed with that same error, the failed fetch is the
\* last one issued, and no accumulator is returned: the items of the earlier
\* pages are not delivered.
C24_ErrorPropagation ==
    /\ fetchError # UNDEFINED =>
          /\ pState = "failed"
          /\ pOutcome.status = "rejected"
          /\ pOutcome.error = fetchError
          /\ pOutcome.value = <<>>
          /\ Len(requests) = Len(responses) + 1
    /\ pOutcome.status = "rejected" => fetchError # UNDEFINED

\* the third fetch failed after two pages with items had been collected
C24_Witness ==
    /\ pState = "failed"
    /\ fetchError = "AccessDenied"
    /\ Len(requests) = 3
    /\ Len(collection) = 3
    /\ pOutcome = Rejected("AccessDenied")

\* the items field of the page is missing or is not an array
Malformed(response) == response.items.kind # "array"

\* the walk went on after response k with the request built from it
Followed(k) ==
    /\ responses[k].field = adapter.respField
    /\ IF Len(requests) > k
       THEN requests[k + 1] = Request(adapter.reqField, responses[k].value)
       ELSE /\ pState = "ready"
            /\ parameter = Request(adapter.reqField, responses[k].value)

\* C25: Malformed response leniency.  A page whose items field is missing or
\* is not an array contributes zero items, raises no error (the call rejects
\* only when a fetch failed), and does not stop the walk: when it carries a
\* continuation value, the next request is built from it.
C25_MalformedLeniency ==
    /\ collection = SelectSeq(ConcatPages(responses), Passes)
    /\ pOutcome.status = "rejected" => fetchError # UNDEFINED
    /\ \A k \in 1..Len(responses) :
          ( /\ Malformed(responses[k])
            /\ CarriesContinuation(adapter, responses[k])
            /\ shouldFetch = "none" ) => Followed(k)

\* two malformed pages were walked through and the third page was collected
C25_Witness ==
    /\ pState = "done"
    /\ Len(responses) = 3
    /\ responses[1].items = NotAnArray
    /\ responses[2].items = NoItemsField
    /\ Followed(1) /\ Followed(2)
    /\ pOutcome = Resolved(<<"c">>)

\* C26: Every adapter stops only when the response omits its continuation
\* field.  A response that carries the field, with any value, an empty string
\* and 0 included, leads to another fetch whose request carries that value
\* (for fetchAllWithPagination: when shouldFetchNextPage is not supplied).
C26_StopsOnlyOnOmission ==
    shouldFetch = "none" =>
        /\ \A k \in 1..Len(responses) :
              responses[k].field = adapter.respField => Followed(k)
        /\ pState = "done" => OmitsField(adapter, responses[Len(responses)])

\* the walk went on after response k
Continued(k) == k < Len(requests) \/ (k = Len(requests) /\ pState = "ready")

\* C27: Generic adapter continuation.  fetchAllWithPagination fetches the
\* next page after a response if and only if shouldFetchNextPage is not
\* supplied or returns true for it, and the response carries the named
\* pagination field; the next request is {paginationFieldName: value of the
\* field}; the items of every page, also of the one on which
\* shouldFetchNextPage returns false, are in the result.
C27_GenericContinuation ==
    adapter.name = "fetchAllWithPagination" =>
        /\ \A k \in 1..Len(responses) :
              /\ Continued(k) <=>
                    /\ shouldFetch = "none" \/ ShouldFetchNextPage(shouldFetch, responses[k])
                    /\ responses[k].field = adapter.respField
              /\ Continued(k) => Followed(k)
        /\ collection = SelectSeq(ConcatPages(responses), Passes)
        /\ pState = "done" => pOutcome = Resolved(collection)

\* ------------------------------------------------------------------------
\* Properties of scanS3Bucket and listS3Objects (checked under S3Spec)
\* ------------------------------------------------------------------------
\* the entries of a field of a listing page (none when the field is missing)
FieldEntries(value) == IF value.kind = "array" THEN value.entries ELSE <<>>

RECURSIVE ConcatContents(_)
\* the Contents of the pages of a listing, concatenated in page order
ConcatContents(listing) ==
    IF listing = <<>> THEN <<>>
    ELSE FieldEntries(Head(listing).Contents) \o ConcatContents(Tail(listing))

RECURSIVE ConcatCommonPrefixes(_)
ConcatCommonPrefixes(listing) ==
    IF listing = <<>> THEN <<>>
    ELSE FieldEntries(Head(listing).CommonPrefixes) \o ConcatCommonPrefixes(Tail(listing))

S3Passes(item) == item \in S3Accepted(s3Filter)

\* C28: scanS3Bucket handles pagination.  For a bucket whose listing spans
\* N > 1 pages, the k+1-th ListObjectsV2 command carries the
\* NextContinuationToken of the k-th output as its ContinuationToken, no more
\* than N commands are sent, and once N outputs have been received the walk
\* has returned the concatenation of the Contents of the N pages.
C28_ScanS3Bucket ==
    (s3Function = "scanS3Bucket" /\ Len(bucket) > 1) =>
        /\ \A k \in 1..(Len(sCommands) - 1) :
              sCommands[k + 1] = Request("ContinuationToken", sResponses[k].value)
        /\ Len(sCommands) <= Len(bucket)
        /\ Len(sResponses) >= Len(bucket) =>
              /\ sState = "done"
              /\ sOutcome = SResolved([contents |-> ConcatContents(bucket),
                                       commonPrefixes |-> <<>>])

\* C29: listS3Objects dual accumulation.  For every listing whose last page
\* has no NextContinuationToken, once every page has been received the walk
\* has returned contents, the concatenation in page order of each page's
\* Contents restricted to the entries filterFunc accepts, and commonPrefixes,
\* the same for each page's CommonPrefixes; a page lacking one of the two
\* fields contributes nothing to that sequence and leaves the other alone.
C29_DualAccumulation ==
    s3Function = "listS3Objects" =>
        /\ Len(sResponses) <= Len(bucket)
        /\ Len(sResponses) = Len(bucket) =>
              /\ sState = "done"
              /\ sOutcome = SResolved(
                     [contents |-> SelectSeq(ConcatContents(bucket), S3Passes),
                      commonPrefixes |-> SelectSeq(ConcatCommonPrefixes(bucket), S3Passes)])

\* ------------------------------------------------------------------------
\* Sequencing of a walk and of a retry sequence (checked under SeqSpec)
\* ------------------------------------------------------------------------
\* the fetches of the walk that have been issued and have not settled
FetchesInFlight ==
    Len(requests) - Len(responses) - (IF pState = "failed" THEN 1 ELSE 0)

\* the request the adapter derives from a response it received
RequestAfter(upstream) ==
    NextParameter(adapter, shouldFetch,
                  awaitItems(Returns(fetchShape, Fulfilled(upstream))).response)

\* the attempts of the retry sequence that have been started and have not
\* settled: a settled attempt was followed by a wait or ended the sequence
AttemptsInFlight ==
    invocations - Len(waits) - (IF rState = "done" THEN 1 ELSE 0)

\* C30: Strictly sequential execution.  Within one pagination walk at most
\* one fetch is in flight at any time, and request k+1 is the one derived from
\* response k, issued when responses 1..k have all been reduced into the
\* accumulator.  Within one withRetry call at most one attempt is in flight,
\* attempts are numbered 1, 2, ... in order, and attempt n+1 has started only
\* when attempt n has failed and n backoff waits have been scheduled and
\* have elapsed.
C30_SequentialExecution ==
    /\ pState # "idle" =>
          /\ FetchesInFlight \in {0, 1}
          /\ FetchesInFlight = 1 <=> pState = "inflight"
          /\ \A k \in 1..Len(requests) :
                /\ k - 1 <= Len(responses)
                /\ requests[k] = IF k = 1 THEN EmptyRequest ELSE RequestAfter(responses[k - 1])
          /\ collection = SelectSeq(UnfilteredWalk(<<>>, responses), Passes)
    /\ rState # "idle" =>
          /\ AttemptsInFlight \in {0, 1}
          /\ AttemptsInFlight = 1 <=> rState = "running"
          /\ \A n \in 1..Len(attemptArgs) : attemptArgs[n] = n
          /\ Len(attemptArgs) = invocations
          /\ rState = "running" =>
                /\ attempt = invocations
                /\ Len(waits) = attempt - 1
                /\ attempt > 1 => previousError # NoError
          /\ rState = "waiting" =>
                /\ attempt = invocations
                /\ Len(waits) = attempt
                /\ previousError # NoError
          /\ rState = "calling" =>
                /\ attempt = invocations + 1
                /\ Len(waits) = invocations

\* the third fetch of a walk is in flight: two responses have been reduced
\* and the third request is the one derived from the second response
C30_Witness ==
    /\ pState = "inflight"
    /\ Len(requests) = 3
    /\ Len(responses) = 2
    /\ collection # <<>>
    /\ requests[3] # EmptyRequest
    /\ requests[3] # requests[2]

\* ------------------------------------------------------------------------
\* Isolation of concurrent calls (checked under ConcurrentSpec)
\* ------------------------------------------------------------------------
RECURSIVE AloneCollection(_, _)
\* the accumulator of a walk that received these responses and ran alone
AloneCollection(function, received) ==
    IF received = <<>> THEN EmptyListing
    ELSE WalkCollect(function,
                     AloneCollection(function, SubSeq(received, 1, Len(received) - 1)),
                     received[Len(received)])

\* the request a walk that ran alone would issue after these responses
AloneParameter(function, received) ==
    IF received = <<>> THEN EmptyRequest
    ELSE WalkNextParameter(function, received[Len(received)])

\* C31: Isolation of concurrent independent calls.  When two top-level calls
\* (two walks, two withRetry calls, or one of each) are interleaved at their
\* suspension points, each behaves as when run alone: the accumulator, the
\* next request and the value returned by a walk are those its own responses
\* give; a retry sequence numbers its own attempts 1, 2, ..., hands attempt
\* n > 1 the error its own attempt n-1 threw, and settles with the result or
\* the error of its own last attempt; and no call touches the accumulator,
\* attempt number or previous error of the other.
C31_Isolation ==
    \A id \in CallIds :
        LET c == calls[id]
            own == memory[StateOf(id)]
        IN IF IsWalk(c.function)
           THEN /\ own.collection = AloneCollection(c.function, c.received)
                /\ c.state \in {"ready", "inflight"} =>
                      c.parameter = AloneParameter(c.function, c.received)
                /\ c.state = "done" =>
                      /\ c.status = "resolved"
                      /\ c.listing = AloneCollection(c.function, c.received)
                      /\ AloneParameter(c.function, c.received) = NoRequest
                /\ own.attempt = 1
                /\ own.previousError = NoError
           ELSE /\ \A n \in 1..Len(c.attemptArgs) :
                      /\ c.attemptArgs[n] = n
                      /\ c.previousErrorArgs[n] = IF n = 1 THEN NoError ELSE c.thrown[n - 1]
                /\ own.attempt = Len(c.attemptArgs) + (IF c.state = "calling" THEN 1 ELSE 0)
                /\ c.status = "resolved" => c.result.from = Len(c.attemptArgs)
                /\ c.status = "rejected" =>
                      /\ Len(c.thrown) = Len(c.attemptArgs)
                      /\ c.error = c.thrown[Len(c.thrown)]
                /\ own.collection = EmptyListing

\* two calls of fetchAllByNextToken are both waiting for a fetch, the first
\* having collected two pages and the second one page
C31_Witness ==
    /\ calls[1].function = "fetchAllByNextToken"
    /\ calls[2].function = "fetchAllByNextToken"
    /\ calls[1].state = "inflight"
    /\ calls[2].state = "inflight"
    /\ Len(calls[1].received) = 2
    /\ Len(calls[2].received) = 1
    /\ memory[1].collection.contents = <<"a", "b", "a", "b">>
    /\ memory[2].collection.contents = <<"a", "b">>

\* ------------------------------------------------------------------------
\* Fetch-shape normalization (checked under PageSpec)
\* ------------------------------------------------------------------------
\* the walk a fetch function returning promises of these responses gives:
\* its requests, whether it has returned, and its accumulator
PromiseWalkRequest(k) ==
    IF k = 1 THEN EmptyRequest ELSE NextParameter(adapter, shouldFetch, responses[k - 1])
PromiseWalkReturned ==
    /\ responses # <<>>
    /\ NextParameter(adapter, shouldFetch, responses[Len(responses)]) = NoRequest
RECURSIVE PromiseWalkCollection(_)
PromiseWalkCollection(pages) ==
    IF pages = <<>> THEN <<>>
    ELSE Collect(PromiseWalkCollection(SubSeq(pages, 1, Len(pages) - 1)),
                 pages[Len(pages)], filterFunc)

\* C32: Fetch-shape normalization.  For every adapter, a fetch function
\* returning objects whose promise() yields the responses R1, R2, ... gives
\* the walk of a fetch function returning promises of R1, R2, ...: the same
\* requests, the same number of fetches (it returns after the same response)
\* and the same result.
C32_FetchShapeNormalization ==
    fetchShape = "request" =>
        /\ \A k \in 1..Len(requests) : requests[k] = PromiseWalkRequest(k)
        /\ collection = PromiseWalkCollection(responses)
        /\ pState = "done" <=> (PromiseWalkReturned /\ Len(requests) = Len(responses))
        /\ pState = "done" => pOutcome = Resolved(PromiseWalkCollection(responses))

\* a fetch function returning request objects was walked over three pages
C32_Witness ==
    /\ fetchShape = "request"
    /\ pState = "done"
    /\ Len(requests) = 3
    /\ requests[3].value = "m2"
    /\ pOutcome.value = <<"a", "b", "c", "d", "e">>

\* ------------------------------------------------------------------------
\* Properties of headS3Object (checked under HeadSpec)
\* ------------------------------------------------------------------------
\* the request failed with this HTTP status: the S3 client reports the status
\* of the response in the error's $metadata
FailedWithStatus(settled, status) ==
    /\ ~settled.ok
    /\ settled.error.metadata = "present"
    /\ settled.error.httpStatusCode = status

Occurrences(s, c) == Cardinality({i \in 1..Len(s) : s[i] = c})

\* the string occurs in s at position i
OccursAt(s, pattern, i) ==
    i + Len(pattern) - 1 <= Len(s) /\ SubSeq(s, i, i + Len(pattern) - 1) = pattern

FilteredEntries(value, accepted) ==
    IF value.kind = "array" THEN SelectSeq2(value.entries, accepted) ELSE <<>>

RECURSIVE ConcatFiltered(_, _, _)
\* the filtered arrays found under a field of the first k pages, in page order
ConcatFiltered(pages, fieldName, accepted) ==
    IF pages = <<>> THEN <<>>
    ELSE ConcatFiltered(SubSeq(pages, 1, Len(pages) - 1), fieldName, accepted)
            \o FilteredEntries(pages[Len(pages)][fieldName], accepted)

IsPrefix(s, t) == Len(s) <= Len(t) /\ SubSeq(t, 1, Len(s)) = s

\* after k responses the accumulator is the concatenation, in arrival order,
\* of the filtered item arrays of pages 1..k
AccumulatorMatchesPages ==
    /\ pState # "idle" =>
          collection = ConcatFiltered(responses, "items", Accepted(filterFunc))
    /\ sState # "idle" =>
          /\ sCollection.contents =
                 ConcatFiltered(sResponses, "items", S3Accepted(s3Filter))
          /\ sCollection.commonPrefixes =
                 IF s3Function = "listS3Objects"
                 THEN ConcatFiltered(sResponses, "prefixes", S3Accepted(s3Filter))
                 ELSE <<>>

\* a step of the walk only appends to the accumulator
AccumulatorGrowsAtEnd ==
    /\ IsPrefix(collection, collection')
    /\ IsPrefix(sCollection.contents, sCollection'.contents)
    /\ IsPrefix(sCollection.commonPrefixes, sCollection'.commonPrefixes)

\* C35: Accumulator invariant.  At every point of a pagination walk, after k
\* responses have been processed the accumulator equals the concatenation, in
\* arrival order, of the (filtered) item arrays of pages 1..k; hence the
\* accumulator after page k is a prefix of the accumulator after page k+1:
\* items are never reordered or dropped.
C35_AccumulatorInvariant ==
    [](AccumulatorMatchesPages) /\ [][AccumulatorGrowsAtEnd]_vars

\* a filtered walk has processed two pages and goes on: b was left out, the
\* item of the second page follows the item of the first
C35_Witness ==
    /\ pState = "ready"
    /\ filterFunc = "notB"
    /\ Len(responses) = 2
    /\ responses[1].items = ArrayOf(<<"a", "b">>)
    /\ responses[2].items = ArrayOf(<<"d", "e">>)
    /\ collection = <<"a", "d", "e">>

\* ------------------------------------------------------------------------
\* Attempt numbering (checked under RetrySpec)
\* ------------------------------------------------------------------------
\* the operation is invoked in this step, with attempt and previousError
OperationInvoked == invocations' = invocations + 1

\* C36: Attempt numbering.  withRetry invokes the operation with attempt
\* numbers 1, 2, 3, ... in order, each retry adding exactly 1; attempt 1 is
\* handed previousError = undefined, and attempt n > 1 is handed the error
\* attempt n-1 threw: the error an attempt throws becomes previousError and
\* stays so, through the wait, until the next invocation.
C36_AttemptNumbering ==
    [][ /\ OperationInvoked =>
              /\ attempt = invocations + 1
              /\ attemptArgs' = Append(attemptArgs, attempt)
              /\ attempt = 1 => previousError = NoError
              /\ attempt > 1 => (previousError # NoError /\ previousError \in ErrorSet)
        /\ attempt' \in {attempt, attempt + 1}
        /\ attempt' = attempt + 1 => (rState = "waiting" /\ ~OperationInvoked)
        /\ rState \in {"waiting", "calling"} => previousError' = previousError
        /\ (rState = "running" /\ rState' = "done" /\ rOutcome'.status = "rejected") =>
              (rOutcome'.error = previousError' \/ rOutcome'.error = TypeError)
      ]_vars

\* promiseWithRetry runs the third attempt: the operation was handed 1, 2, 3
\* and, the third time, the throttling error of the second attempt
C36_Witness ==
    /\ entry = "promiseWithRetry"
    /\ rState = "running"
    /\ attemptArgs = <<1, 2, 3>>
    /\ ~allSame
    /\ previousError = V3Error("ThrottlingException", "429", "absent")

\* ------------------------------------------------------------------------
\* Bounded retries (checked under FairRetrySpec)
\* ------------------------------------------------------------------------
\* the backoff argument is an array (the default one when omitted)
ArraySchedule == backoff.kind # "function"

\* C37: Bounded retries with an array schedule.  For a backoff array of
\* length K, whatever the operation does and whatever statusCodes is,
\* withRetry eventually settles and invokes the operation at most K+1
\* times; a negative element at (0-based) index j lowers the bound to j+1.
C37_BoundedRetries ==
    /\ [](ArraySchedule =>
            /\ invocations <= Len(backoff.arr) + 1
            /\ \A j \in 0..(Len(backoff.arr) - 1) :
                  backoff.arr[j + 1] < 0 => invocations <= j + 1)
    /\ <>(ArraySchedule => (rState = "done" /\ rOutcome.status # "pending"))

\* the schedule [100, -1] let one retry happen: the second failure, of a
\* retryable error, ended the sequence after 2 invocations
C37_Witness ==
    /\ backoff.kind = "array"
    /\ backoff.arr = <<100, -1>>
    /\ rState = "done"
    /\ invocations = 2
    /\ waits = <<100>>
    /\ rOutcome = RRejected(V3Error("Error", "429", "true"))

LastBackoffIndex == Len(FIBONACCI_SEQUENCE_BACKOFFS) - 1

\* C39: fibonacciRetryConfigurationOptions(maxRetries, base) throws if and
\* only if maxRetries < 0 or maxRetries > 27, the last index of
\* FIBONACCI_SEQUENCE_BACKOFFS; otherwise it returns maxRetries unchanged,
\* with customBackoff(i) = base * FIBONACCI_SEQUENCE_BACKOFFS[i], which for
\* base > 0 is positive for every retry count i < maxRetries and negative
\* only at the last index.
C39_FibonacciOptions ==
    /\ LastBackoffIndex = 27
    /\ fState \in {"returned", "threw", "backoff"} =>
          /\ (fState = "threw") <=> (maxRetries < 0 \/ maxRetries > 27)
          /\ (fState = "threw") <=> fResult.throws
          /\ fState # "threw" => fResult.maxRetries = maxRetries
    /\ fState = "backoff" =>
          /\ fResult.delay = BaseValue(base) * FIBONACCI_SEQUENCE_BACKOFFS[retryCount + 1]
          /\ BaseValue(base) > 0 =>
                /\ retryCount < maxRetries => fResult.delay > 0
                /\ fResult.delay < 0 <=> retryCount = 27

\* maxRetries 27 is accepted; with the default base the delay of retry
\* count 26 is 100 * 317811
C39_Witness ==
    /\ fState = "backoff"
    /\ maxRetries = 27
    /\ ~base.given
    /\ retryCount = 26
    /\ fResult.delay = 31781100

====
